---- MODULE Spec2Model ----
(***************************************************************************)
(* web-muse: the sample ring buffer (MuseCircularBuffer) and the device    *)
(* session state machine (MuseBase.connect / disconnect and the            *)
(* gattserverdisconnected listener), modelled from src/src/lib/            *)
(* MuseDevice.js and src/src/react/context/EEGContext.js.                  *)
(***************************************************************************)
EXTENDS Integers, Sequences, FiniteSets, TLC

(* ---- bounds of the model ---- *)
Size == 3           \* capacity of the modelled buffer (the code uses 256)
MaxVal == 1         \* sample values are 0..MaxVal
MaxWrites == 5      \* accepted writes in one behaviour
MaxClock == 2       \* Date.now() ranges over 1..MaxClock
MaxCalls == 2       \* connect() invocations that get past the guard in one behaviour
MaxTexts == 2       \* texts the device sends on the control characteristic in one behaviour
SAMPLE_RATE == 1    \* ticks per second of recording (the code uses 256)
MaxExtra == 1       \* pipeline ticks in one behaviour beyond WINDOW_SIZE
MaxSamples == 1     \* samples the device sends in one behaviour
MaxResults == 2     \* results stopRecording() returns for one recording
MaxElapse == 1      \* steps of the wall clock in one behaviour
ElapseStep == 3000  \* milliseconds in one step of the wall clock
Epoch == 10000      \* Date.now() when the page is loaded, in milliseconds
MaxChannelLen == 5  \* length of a channel given to sanitizeAndInterpolate
MaxCmdLen == 255    \* characters of a command given to encodeCommand
MaxTriples == 2     \* groups of three bytes in the payload given to a decoder
MaxNotifications == 2   \* notifications the Muse object handles in one behaviour
MaxBins == 2        \* bins of a spectrum computed by calculatePowerSpectrum
MaxRate == 2        \* sample rates of the windows stopRecording() is applied to on its own

\* the EEG channels the pipeline samples
CHANNELS == 4

\* the bins of the spectrum of a window of 768 samples
SpectrumBins == 384

Values == 0..MaxVal

\* the value read() returns on an empty buffer (JavaScript null)
Null == -1

VARIABLES
    buf,        \* one MuseCircularBuffer: memory, head, tail, isFull, lastwrite, length
    clock,      \* Date.now()
    bop,        \* the last buffer call: its name, argument, result, and whether it was dropped
    accepted,   \* history: the values whose write was issued while the buffer was not full
    returned    \* history: the non-null values read() returned

bufVars == <<buf, clock, bop, accepted, returned>>

VARIABLES
    variant,    \* the class in use: "lib" (lib/MuseDevice.js MuseBase) or "ctx" (react/context Muse)
    state,      \* #state: 0 disconnected, 1 connecting, 2 connected
    dev,        \* #dev: NoHandle or the selected device
    controlChar,\* #controlChar: NoHandle or the device whose control characteristic is held
    calls,      \* the connect() invocations: where each is suspended, and its locals
    listeners,  \* the devices that carry a gattserverdisconnected listener of the session
    last        \* the last handler that ran: its name, the transport requests it issued, its outcome

sessionVars == <<variant, state, dev, controlChar, calls, listeners, last>>

VARIABLES
    infoFragment,   \* #infoFragment: the characters accumulated since the last flush
    info,           \* Muse.info: the session info map, key -> source text of the value
    wire,           \* the bytes of the text in delivery that no notification has carried yet
    ctl             \* history of the control handler: the texts sent, and for the text in
                    \* delivery the map before it, the parses and the errors thrown

ctlVars == <<infoFragment, info, wire, ctl>>

VARIABLES
    eeg,                \* Muse.eeg: the five EEG buffers
    ppg,                \* Muse.ppg: the three PPG buffers
    dateNow,            \* Date.now() of the recording service, in milliseconds
    subscription,       \* whether the interval of setupPipeline is running
    rawEEG,             \* the tuple last passed to setRawEEG
    recordingBuffer,    \* the module-level recordingBuffer
    isRecording,        \* the module-level isRecording
    recordingStartTime, \* the module-level recordingStartTime, Null before the first start
    rec                 \* history of the recording service: the last call and its result, the
                        \* window before a start or stop, counts of the samples sent, of the
                        \* ticks while recording since the last start, and of its results

recVars == <<eeg, ppg, dateNow, subscription, rawEEG, recordingBuffer, isRecording,
             recordingStartTime, rec>>

VARIABLES
    applied     \* the last call of a pure function: its name, argument and result

codecVars == <<applied>>

VARIABLES
    accelerometer,  \* Muse.accelerometer: the three accelerometer buffers
    gyroscope,      \* Muse.gyroscope: the three gyroscope buffers
    batteryLevel,   \* Muse.batteryLevel, Null before the first battery notification
    ntf             \* the last notification: its handler, characteristic and value, and
                    \* the number of notifications so far

museVars == <<accelerometer, gyroscope, batteryLevel, ntf>>

VARIABLES
    provider        \* the state of the EEGProvider: whether it holds a Muse (muse), the flags
                    \* isConnected and isMockData, and where its connectMuseDevice() call is

providerVars == <<provider>>

vars == <<bufVars, sessionVars, ctlVars, recVars, codecVars, museVars, providerVars>>

(* ======================= MuseCircularBuffer ======================= *)

\* constructor(size)
MuseCircularBuffer(size) ==
    [memory |-> [i \in 0..(size - 1) |-> 0],
     head |-> 0, tail |-> 0, isFull |-> FALSE, lastwrite |-> 0, length |-> 0]

MemoryLength(b) == Cardinality(DOMAIN b.memory)

\* next(n)
next(b, n) ==
    LET nxt == n + 1
    IN  IF nxt = MemoryLength(b) THEN 0 ELSE nxt

\* a read that forgets to clear the full flag
readKeepsFull(b) ==
    IF b.tail = b.head /\ ~b.isFull
    THEN [buf |-> b, ret |-> Null]
    ELSE LET t == (b.tail + 1) % MemoryLength(b)
         IN  [buf |-> [b EXCEPT !.tail = t, !.length = b.length - 1],
              ret |-> b.memory[t]]

\* read(): the buffer after the call, and the value returned
read(b) ==
    IF b.tail = b.head /\ ~b.isFull
    THEN [buf |-> b, ret |-> Null]
    ELSE LET t == next(b, b.tail)
         IN  [buf |-> [b EXCEPT !.tail = t, !.isFull = FALSE, !.length = b.length - 1],
              ret |-> b.memory[t]]

\* a write that overwrites the oldest sample instead of dropping the new one
writeOverwriteOldest(b, value, now) ==
    LET h == next(b, b.head)
    IN  IF b.isFull
        THEN [b EXCEPT !.lastwrite = now, !.head = h, !.tail = h, !.memory[h] = value]
        ELSE [b EXCEPT !.lastwrite = now, !.head = h, !.memory[h] = value,
                       !.isFull = (h = b.tail), !.length = b.length + 1]

\* a write that, on a full buffer, replaces the newest sample
writeReplacesNewest(b, value, now) ==
    LET h == next(b, b.head)
    IN  IF b.isFull
        THEN [b EXCEPT !.lastwrite = now, !.memory[b.head] = value]
        ELSE [b EXCEPT !.lastwrite = now, !.head = h, !.memory[h] = value,
                       !.isFull = (h = b.tail), !.length = b.length + 1]

\* a write that counts the sample it drops
writeCountsDropped(b, value, now) ==
    LET h == next(b, b.head)
    IN  IF b.isFull
        THEN [b EXCEPT !.lastwrite = now, !.length = b.length + 1]
        ELSE [b EXCEPT !.lastwrite = now, !.head = h, !.memory[h] = value,
                       !.isFull = (h = b.tail), !.length = b.length + 1]

\* write(value), called when Date.now() is now
write(b, value, now) ==
    LET b1 == [b EXCEPT !.lastwrite = now]
    IN  IF b1.isFull
        THEN b1
        ELSE LET h == next(b1, b1.head)
             IN  [b1 EXCEPT !.head = h, !.memory[h] = value,
                            !.isFull = (h = b1.tail), !.length = b1.length + 1]

BufInit ==
    /\ buf = MuseCircularBuffer(Size)
    /\ clock = 1
    /\ bop = [op |-> "new", arg |-> Null, ret |-> Null, dropped |-> FALSE]
    /\ accepted = <<>>
    /\ returned = <<>>

\* a caller writes one sample
Write ==
    \E v \in Values :
        /\ buf.isFull \/ Len(accepted) < MaxWrites
        /\ buf' = write(buf, v, clock)
        /\ bop' = [op |-> "write", arg |-> v, ret |-> Null, dropped |-> buf.isFull]
        /\ accepted' = IF buf.isFull THEN accepted ELSE Append(accepted, v)
        /\ UNCHANGED <<clock, returned, sessionVars, ctlVars, recVars, codecVars, providerVars, museVars>>

\* a caller reads one sample
Read ==
    LET r == read(buf)
    IN  /\ buf' = r.buf
        /\ bop' = [op |-> "read", arg |-> Null, ret |-> r.ret, dropped |-> FALSE]
        /\ returned' = IF r.ret = Null THEN returned ELSE Append(returned, r.ret)
        /\ UNCHANGED <<clock, accepted, sessionVars, ctlVars, recVars, codecVars, providerVars, museVars>>

\* wall-clock time passes
Tick ==
    /\ clock < MaxClock
    /\ clock' = clock + 1
    /\ bop' = [op |-> "tick", arg |-> Null, ret |-> Null, dropped |-> FALSE]
    /\ UNCHANGED <<buf, accepted, returned, sessionVars, ctlVars, recVars, codecVars, providerVars, museVars>>

(* ======================= MuseBase: the device session ======================= *)

\* null, for #dev and #controlChar
NoHandle == "null"

\* the devices navigator.bluetooth.requestDevice can resolve to
Devices == {"muse"}

Variants == {"lib", "ctx"}

\* the characteristics connect() resolves, in the order it resolves them
Characteristics ==
    <<"control", "battery", "gyroscope", "accelerometer", "ppg1", "ppg2", "ppg3",
      "eeg1", "eeg2", "eeg3", "eeg4", "eeg5">>

\* a startup sequence that starts streaming before setting the preset
StartupCommandsSwapped == <<"h", "s", "p50", "d", "v1">>

\* the commands of #start() (pause, p50, s, resume) and the v1 that follows it
StartupCommands == <<"h", "p50", "s", "d", "v1">>

\* a guard that only refuses a connected session
connectGuardConnectedOnly(d, st) == st = 2

\* connect(): the condition under which it returns at once
connectGuard(d, st) == d # NoHandle \/ st # 0

\* a catch block that forgets to reset the state
catchKeepsState(st) == [dev |-> NoHandle, state |-> st]

\* connect(): the catch block of requestDevice and of gatt.connect
catchConnect(st) == [dev |-> NoHandle, state |-> 0]

\* a disconnect that keeps the device handle
disconnectKeepsDev(d, st) ==
    [dev |-> d, state |-> 0, teardown |-> d # NoHandle]

\* disconnect(): gatt.disconnect() if a device is held, then #dev = null, #state = 0
disconnect(d, st) ==
    [dev |-> NoHandle, state |-> 0, teardown |-> d # NoHandle]

\* the object the gattserverdisconnected listener runs with as `this`:
\* a function expression called by the event target, the BluetoothDevice
listenerThis == "device"

\* whether an object carries the private fields #dev and #state of MuseBase
hasPrivateFields(obj) == obj = "session"

\* the listener MuseBase.connect registers: `this.#dev = null; this.#state = 0;
\* that.disconnected()`. Writing a private field of an object that does not
\* declare it throws a TypeError; nothing after it runs.
libListener(d, st) ==
    IF hasPrivateFields(listenerThis)
    THEN [dev |-> NoHandle, state |-> 0, hook |-> TRUE, threw |-> FALSE]
    ELSE [dev |-> d, state |-> st, hook |-> FALSE, threw |-> TRUE]

\* the listener of the context's Muse: that.onDisconnected()
onDisconnected(d, st) ==
    [dev |-> NoHandle, state |-> 0, hook |-> TRUE, threw |-> FALSE]

NewCall ==
    [pc |-> "idle", k |-> 0, gatt |-> NoHandle, listening |-> FALSE,
     hooks |-> {}, written |-> <<>>, completed |-> 0, selections |-> 0]

\* the record of a handler run: `again` says the handler before it was the same one
Handler(op, call, requests) ==
    [op |-> op, call |-> call, requests |-> requests, again |-> (last.op = op),
     hook |-> FALSE, teardown |-> FALSE, threw |-> FALSE]

SessionInit ==
    /\ variant \in Variants
    /\ state = 0
    /\ dev = NoHandle
    /\ controlChar = NoHandle
    /\ calls = [i \in 1..MaxCalls |-> NewCall]
    /\ listeners = {}
    /\ last = [op |-> "new", call |-> 0, requests |-> <<>>, again |-> FALSE,
               hook |-> FALSE, teardown |-> FALSE, threw |-> FALSE]

Suspended(i, pc) == calls[i].pc = pc

\* connect() is called: it returns at once, or enters Connecting and requests a device
ConnectCall ==
    IF connectGuard(dev, state)
    THEN /\ last' = Handler("connect", 0, <<>>)
         /\ UNCHANGED <<bufVars, ctlVars, recVars, codecVars, providerVars, museVars, variant, state, dev, controlChar, calls, listeners>>
    ELSE \E i \in 1..MaxCalls :
            /\ calls[i].pc = "idle"
            /\ \A j \in 1..(i - 1) : calls[j].pc # "idle"
            /\ state' = 1
            /\ calls' = [calls EXCEPT ![i].pc = "requestDevice", ![i].selections = 1]
            /\ last' = Handler("connect", i, <<"requestDevice">>)
            /\ UNCHANGED <<bufVars, ctlVars, recVars, codecVars, providerVars, museVars, variant, dev, controlChar, listeners>>

\* requestDevice rejects (no device, chooser dismissed): the catch block runs
RequestDeviceRejected(i) ==
    /\ Suspended(i, "requestDevice")
    /\ dev' = catchConnect(state).dev
    /\ state' = catchConnect(state).state
    /\ calls' = [calls EXCEPT ![i].pc = "returned"]
    /\ last' = Handler("requestDevice.rejected", i, <<>>)
    /\ UNCHANGED <<bufVars, ctlVars, recVars, codecVars, providerVars, museVars, variant, controlChar, listeners>>

\* requestDevice resolves: #dev is set and gatt.connect() is requested
RequestDeviceResolved(i) ==
    /\ Suspended(i, "requestDevice")
    /\ \E d \in Devices :
          /\ dev' = d
          /\ calls' = [calls EXCEPT ![i].pc = "gattConnect", ![i].gatt = d]
    /\ last' = Handler("requestDevice.resolved", i, <<"gatt.connect">>)
    /\ UNCHANGED <<bufVars, ctlVars, recVars, codecVars, providerVars, museVars, variant, state, controlChar, listeners>>

\* gatt.connect() rejects: the catch block runs
GattConnectRejected(i) ==
    /\ Suspended(i, "gattConnect")
    /\ dev' = catchConnect(state).dev
    /\ state' = catchConnect(state).state
    /\ calls' = [calls EXCEPT ![i].pc = "returned"]
    /\ last' = Handler("gatt.connect.rejected", i, <<>>)
    /\ UNCHANGED <<bufVars, ctlVars, recVars, codecVars, providerVars, museVars, variant, controlChar, listeners>>

\* gatt.connect() resolves: the primary service is requested
GattConnectResolved(i) ==
    /\ Suspended(i, "gattConnect")
    /\ calls' = [calls EXCEPT ![i].pc = "getPrimaryService"]
    /\ last' = Handler("gatt.connect.resolved", i, <<"getPrimaryService">>)
    /\ UNCHANGED <<bufVars, ctlVars, recVars, codecVars, providerVars, museVars, variant, state, dev, controlChar, listeners>>

\* an awaited transport request outside any try block rejects: connect() rejects
Thrown(i, op) ==
    /\ calls' = [calls EXCEPT ![i] = [NewCall EXCEPT !.pc = "thrown", !.selections = 1]]
    /\ last' = [Handler(op, i, <<>>) EXCEPT !.threw = TRUE]
    /\ UNCHANGED <<bufVars, ctlVars, recVars, codecVars, providerVars, museVars, variant, state, dev, controlChar, listeners>>

GetPrimaryServiceRejected(i) ==
    /\ Suspended(i, "getPrimaryService")
    /\ Thrown(i, "getPrimaryService.rejected")

\* getPrimaryService resolves: the disconnect listener is added to #dev (a
\* TypeError if #dev is null by now) and the control characteristic is requested
GetPrimaryServiceResolved(i) ==
    /\ Suspended(i, "getPrimaryService")
    /\ IF dev = NoHandle
       THEN Thrown(i, "getPrimaryService.resolved")
       ELSE /\ listeners' = listeners \cup {dev}
            /\ calls' = [calls EXCEPT ![i].pc = "getCharacteristic", ![i].k = 1,
                                      ![i].listening = TRUE]
            /\ last' = Handler("getPrimaryService.resolved", i,
                               <<"addEventListener", "getCharacteristic">>)
            /\ UNCHANGED <<bufVars, ctlVars, recVars, codecVars, providerVars, museVars, variant, state, dev, controlChar>>

GetCharacteristicRejected(i) ==
    /\ Suspended(i, "getCharacteristic")
    /\ Thrown(i, "getCharacteristic.rejected")

\* #connectChar: getCharacteristic resolves, the hook is set, notifications are
\* started (not awaited); the first characteristic becomes #controlChar; then the
\* next characteristic is requested, or #start() writes its first command
GetCharacteristicResolved(i) ==
    /\ Suspended(i, "getCharacteristic")
    /\ LET k == calls[i].k
           c == [calls[i] EXCEPT !.hooks = @ \cup {Characteristics[k]}]
       IN  /\ controlChar' = IF k = 1 THEN calls[i].gatt ELSE controlChar
           /\ IF k < Len(Characteristics)
              THEN /\ calls' = [calls EXCEPT ![i] = [c EXCEPT !.k = k + 1]]
                   /\ last' = Handler("getCharacteristic.resolved", i,
                                      <<"startNotifications", "getCharacteristic">>)
              ELSE /\ calls' = [calls EXCEPT ![i] =
                                   [c EXCEPT !.pc = "writeValue", !.k = 1,
                                             !.written = <<StartupCommands[1]>>]]
                   /\ last' = Handler("getCharacteristic.resolved", i,
                                      <<"startNotifications", "writeValue">>)
    /\ UNCHANGED <<bufVars, ctlVars, recVars, codecVars, providerVars, museVars, variant, state, dev, listeners>>

WriteValueRejected(i) ==
    /\ Suspended(i, "writeValue")
    /\ Thrown(i, "writeValue.rejected")

\* #sendCommand: writeValue resolves; the next command is written, or, after
\* the last one, #state = 2
WriteValueResolved(i) ==
    /\ Suspended(i, "writeValue")
    /\ LET k == calls[i].k
           c == [calls[i] EXCEPT !.completed = k]
       IN  IF k < Len(StartupCommands)
           THEN /\ calls' = [calls EXCEPT ![i] =
                                [c EXCEPT !.k = k + 1,
                                          !.written = Append(@, StartupCommands[k + 1])]]
                /\ last' = Handler("writeValue.resolved", i, <<"writeValue">>)
                /\ UNCHANGED state
           ELSE /\ calls' = [calls EXCEPT ![i] = [c EXCEPT !.pc = "connected"]]
                /\ last' = Handler("writeValue.resolved", i, <<>>)
                /\ state' = 2
    /\ UNCHANGED <<bufVars, ctlVars, recVars, codecVars, providerVars, museVars, variant, dev, controlChar, listeners>>

\* what a Muse object holds besides the session: the sample buffers, the
\* battery level, the info map and the control fragment accumulator
MuseData ==
    [eeg |-> eeg, ppg |-> ppg, accelerometer |-> accelerometer, gyroscope |-> gyroscope,
     batteryLevel |-> batteryLevel, info |-> info, infoFragment |-> infoFragment]

\* a hook that starts the next session from scratch
disconnectedClears(data) ==
    [data EXCEPT !.infoFragment = <<>>,
                 !.eeg = [n \in DOMAIN data.eeg |-> MuseCircularBuffer(Size)]]

\* the disconnected() hook of MuseBase, which Muse does not override: disconnected() {}
disconnected(data) == data

\* the Muse object holds the data d after the step
Holds(d) ==
    /\ eeg' = d.eeg
    /\ ppg' = d.ppg
    /\ accelerometer' = d.accelerometer
    /\ gyroscope' = d.gyroscope
    /\ batteryLevel' = d.batteryLevel
    /\ info' = d.info
    /\ infoFragment' = d.infoFragment

\* disconnect() is called; MuseBase then calls the disconnected() hook
Disconnect ==
    LET r == disconnect(dev, state)
    IN  /\ dev' = r.dev
        /\ state' = r.state
        /\ last' = [Handler("disconnect", 0, IF r.teardown THEN <<"gatt.disconnect">> ELSE <<>>)
                      EXCEPT !.teardown = r.teardown, !.hook = (variant = "lib")]
        /\ Holds(IF variant = "lib" THEN disconnected(MuseData) ELSE MuseData)
        /\ UNCHANGED <<bufVars, codecVars, providerVars, variant, controlChar, calls, listeners, wire, ctl,
                       dateNow, subscription, rawEEG, recordingBuffer, isRecording,
                       recordingStartTime, rec, ntf>>

\* the transport raises gattserverdisconnected on a device that carries the listener
GattServerDisconnected ==
    \E d \in listeners :
        LET r == IF variant = "lib" THEN libListener(dev, state)
                                    ELSE onDisconnected(dev, state)
        IN  /\ dev' = r.dev
            /\ state' = r.state
            /\ last' = [Handler("gattserverdisconnected", 0, <<>>)
                          EXCEPT !.hook = r.hook, !.threw = r.threw]
            /\ Holds(IF variant = "lib" /\ r.hook THEN disconnected(MuseData) ELSE MuseData)
            /\ UNCHANGED <<bufVars, codecVars, providerVars, variant, controlChar, calls, listeners, wire, ctl,
                           dateNow, subscription, rawEEG, recordingBuffer, isRecording,
                           recordingStartTime, rec, ntf>>

SessionNext ==
    \/ ConnectCall
    \/ Disconnect
    \/ GattServerDisconnected
    \/ \E i \in 1..MaxCalls :
          \/ RequestDeviceRejected(i)
          \/ RequestDeviceResolved(i)
          \/ GattConnectRejected(i)
          \/ GattConnectResolved(i)
          \/ GetPrimaryServiceRejected(i)
          \/ GetPrimaryServiceResolved(i)
          \/ GetCharacteristicRejected(i)
          \/ GetCharacteristicResolved(i)
          \/ WriteValueRejected(i)
          \/ WriteValueResolved(i)

(* ======================= claims: the sample buffer ======================= *)

\* the unread samples of a buffer, oldest first
Contents(b) ==
    [k \in 1..b.length |-> b.memory[(b.tail + k) % MemoryLength(b)]]

\* C1: in every reachable state of a buffer of capacity C, 0 <= length <= C,
\* isFull <=> length = C, and length = 0 <=> (head = tail and not isFull).
C1_BufferInvariant ==
    /\ 0 <= buf.length /\ buf.length <= Size
    /\ buf.isFull <=> (buf.length = Size)
    /\ (buf.length = 0) <=> (buf.head = buf.tail /\ ~buf.isFull)

\* a full buffer whose indices have wrapped around
C1_Witness ==
    /\ buf.isFull
    /\ Len(returned) >= 1
    /\ bop.op = "write" /\ ~bop.dropped

\* C2: the non-null values read() returned, followed by the unread samples in
\* buffer order, are exactly the accepted writes in order: the buffer is a FIFO
\* queue of capacity C, and a value written while full is never read.
C2_Fifo ==
    /\ returned \o Contents(buf) = accepted
    /\ Len(returned) <= Len(accepted)
    /\ \A i \in 1..Len(returned) : returned[i] = accepted[i]
    /\ Len(accepted) - Len(returned) <= Size

\* more than C values have been read back, the last read returned a value
C2_Witness ==
    /\ Len(returned) > Size
    /\ bop.op = "read" /\ bop.ret # Null
    /\ \E i, j \in 1..Len(returned) : returned[i] # returned[j]

\* C3: write(value) on a full buffer leaves memory, head, tail, length and
\* isFull unchanged and returns nothing.
C3_DropOnFull ==
    [][(bop'.op = "write" /\ buf.isFull) =>
          /\ buf'.memory = buf.memory
          /\ buf'.head = buf.head
          /\ buf'.tail = buf.tail
          /\ buf'.length = buf.length
          /\ buf'.isFull = buf.isFull
          /\ bop'.ret = Null
          /\ accepted' = accepted]_vars

\* a write was issued on a full buffer
C3_Witness ==
    /\ bop.op = "write" /\ bop.dropped
    /\ bop.arg # buf.memory[buf.head]

\* C4: read() on an empty buffer returns null and changes nothing; read() on a
\* non-empty buffer advances tail by one mod C, decrements length by one,
\* clears isFull and returns the value stored at the new tail.
C4_Read ==
    [][bop'.op = "read" =>
          IF buf.length = 0
          THEN /\ bop'.ret = Null
               /\ buf' = buf
          ELSE /\ buf'.tail = (buf.tail + 1) % Size
               /\ buf'.length = buf.length - 1
               /\ buf'.isFull = FALSE
               /\ bop'.ret = buf.memory[buf'.tail]
               /\ buf'.head = buf.head
               /\ buf'.memory = buf.memory]_vars

\* a read found the buffer empty after the indices had wrapped around
C4_Witness ==
    /\ bop.op = "read" /\ bop.ret = Null
    /\ Len(returned) > Size


(* ======================= claims: the device session ======================= *)

CallIds == 1..MaxCalls

\* C5: connect() called while the state is Connecting or Connected issues no
\* transport request and leaves the state, the handles, the pending calls and
\* the listeners unchanged.
C5_ConnectNoop ==
    [][(last'.op = "connect" /\ state \in {1, 2}) =>
          /\ last'.requests = <<>>
          /\ last'.call = 0
          /\ UNCHANGED <<state, dev, controlChar, calls, listeners>>]_vars

\* connect() was called while an earlier call was still resolving characteristics
C5_Witness ==
    /\ last.op = "connect" /\ last.requests = <<>>
    /\ state = 1
    /\ \E i \in CallIds : calls[i].pc = "getCharacteristic"

IsPrefix(s, t) == Len(s) <= Len(t) /\ \A k \in 1..Len(s) : s[k] = t[k]

\* what every connect() call has done so far, in the order the code does it
C7_Order ==
    \A i \in CallIds :
        LET c == calls[i]
        IN  /\ IsPrefix(c.written, <<"h", "p50", "s", "d", "v1">>)
            /\ Len(c.written) - c.completed \in {0, 1}
            /\ c.written # <<>> =>
                  /\ c.listening
                  /\ controlChar # NoHandle
                  /\ Cardinality(c.hooks) = 12
            /\ c.hooks # {} => c.listening
            /\ c.pc = "connected" =>
                  /\ c.listening
                  /\ c.hooks = {"control", "battery", "gyroscope", "accelerometer",
                                "ppg1", "ppg2", "ppg3",
                                "eeg1", "eeg2", "eeg3", "eeg4", "eeg5"}
                  /\ c.written = <<"h", "p50", "s", "d", "v1">>
                  /\ c.completed = 5

\* C7: the state becomes Connected only in the step that completes a connect()
\* call, and such a call has registered the disconnect listener, resolved all 12
\* characteristics and given each its callback, and written h, p50, s, d, v1 in
\* that order, each after the previous write completed and none before the
\* control characteristic was resolved.
C7_ConnectedOnlyAfterStartup ==
    /\ []C7_Order
    /\ [][(state' = 2 /\ state # 2) =>
             \E i \in CallIds : calls[i].pc = "writeValue" /\ calls'[i].pc = "connected"]_vars

\* a connect() call has run to its end and set the state to Connected
C7_Witness ==
    /\ state = 2
    /\ last.op = "writeValue.resolved"
    /\ calls[last.call].pc = "connected"

\* C8: whenever the transport raises gattserverdisconnected on a device that
\* carries the listener, the state is forced to Disconnected, #dev is released
\* and the disconnected hook is invoked.
C8_TransportDisconnectResets ==
    [][(last'.op = "gattserverdisconnected") =>
          /\ state' = 0
          /\ dev' = NoHandle
          /\ last'.hook]_vars

\* C9: disconnect() in any state leaves the state Disconnected and #dev null,
\* calls gatt.disconnect() exactly when a device was held, and a second
\* disconnect() right after the first changes nothing and tears nothing down.
C9_DisconnectIdempotent ==
    [][(last'.op = "disconnect") =>
          /\ state' = 0
          /\ dev' = NoHandle
          /\ last'.teardown <=> (dev # NoHandle)
          /\ last'.requests = IF dev # NoHandle THEN <<"gatt.disconnect">> ELSE <<>>
          /\ (last.op = "disconnect") =>
                /\ ~last'.teardown
                /\ UNCHANGED <<state, dev, controlChar, calls, listeners>>]_vars

\* disconnect() was called twice in a row on a session that had been connected
C9_Witness ==
    /\ last.op = "disconnect" /\ last.again /\ ~last.teardown
    /\ \E i \in CallIds : calls[i].pc = "connected"

\* C10: the state changes only along Disconnected->Connecting,
\* Connecting->Connected, Connecting->Disconnected and Connected->Disconnected.
C10_StateEdges ==
    [][(state' # state) =>
          <<state, state'>> \in {<<0, 1>>, <<1, 2>>, <<1, 0>>, <<2, 0>>}]_vars

(* ======================= control notifications ======================= *)

\* the texts the device sends on the control characteristic, as characters
\* (a character of more than one UTF-8 byte is named, not spelled)
Q == "\""

Texts ==
    << <<"{", Q, "a", Q, ":", "1", "}">>,
       <<"{", Q, "a", Q, ":", "2", ",", Q, "b", Q, ":", "1", "}">>,
       <<"{", Q, "b", Q, ":", Q, "}", Q, "}">>,
       <<"{", Q, "b", Q, ":", Q, "e_acute", Q, "}">>,
       <<"}">>,
       <<"{", "a", "}">> >>

\* the bytes of one character on the wire (UTF-8)
Utf8(c) ==
    CASE c = "{" -> <<123>>
      [] c = "}" -> <<125>>
      [] c = Q -> <<34>>
      [] c = ":" -> <<58>>
      [] c = "," -> <<44>>
      [] c = "a" -> <<97>>
      [] c = "b" -> <<98>>
      [] c = "1" -> <<49>>
      [] c = "2" -> <<50>>
      [] c = "e_acute" -> <<195, 169>>
      [] c = "X" -> <<88>>
      [] c = "\n" -> <<10>>
      [] c = "h" -> <<104>>
      [] c = "p" -> <<112>>
      [] c = "5" -> <<53>>
      [] c = "0" -> <<48>>
      [] c = "s" -> <<115>>
      [] c = "d" -> <<100>>
      [] c = "v" -> <<118>>

RECURSIVE Encode(_)
Encode(str) ==
    IF str = <<>> THEN <<>>
    ELSE IF Len(str) = 1 THEN Utf8(str[1])
    ELSE Encode(SubSeq(str, 1, Len(str) \div 2))
            \o Encode(SubSeq(str, Len(str) \div 2 + 1, Len(str)))

\* new TextDecoder().decode(bytes): one character per well-formed UTF-8
\* sequence, U+FFFD for every byte that is not part of one
Ascii(b) ==
    CASE b = 123 -> "{"
      [] b = 125 -> "}"
      [] b = 34 -> Q
      [] b = 58 -> ":"
      [] b = 44 -> ","
      [] b = 97 -> "a"
      [] b = 98 -> "b"
      [] b = 49 -> "1"
      [] b = 50 -> "2"
      [] b = 88 -> "X"
      [] b = 10 -> "\n"
      [] b = 104 -> "h"
      [] b = 112 -> "p"
      [] b = 53 -> "5"
      [] b = 48 -> "0"
      [] b = 115 -> "s"
      [] b = 100 -> "d"
      [] b = 118 -> "v"
      [] OTHER -> "U+FFFD"

RECURSIVE TextDecoder(_)
TextDecoder(bytes) ==
    IF bytes = <<>> THEN <<>>
    ELSE IF Head(bytes) < 128 THEN <<Ascii(Head(bytes))>> \o TextDecoder(Tail(bytes))
    ELSE IF Len(bytes) >= 2 /\ Head(bytes) = 195 /\ bytes[2] = 169
         THEN <<"e_acute">> \o TextDecoder(Tail(Tail(bytes)))
    ELSE <<"U+FFFD">> \o TextDecoder(Tail(bytes))

\* bytes.subarray(begin, end), on a sequence indexed from 1
subarray(bytes, begin, end) ==
    SubSeq(bytes, begin + 1, IF end < Len(bytes) THEN end ELSE Len(bytes))

\* #decodeInfo(bytes)
decodeInfo(bytes) == TextDecoder(subarray(bytes, 1, 1 + bytes[1]))

\* ---- JSON.parse, for objects of strings, numbers and objects ----
\* a value is kept as its source text; a scan returns the index after the
\* value it read, or 0 for a SyntaxError
At(s, i) == IF i \in 1..Len(s) THEN s[i] ELSE "EOF"

Digits == {"1", "2"}

ScanString(s, i) ==
    IF At(s, i) # Q THEN 0
    ELSE LET closing == {j \in (i + 1)..Len(s) : s[j] = Q}
         IN  IF closing = {} THEN 0
             ELSE (CHOOSE j \in closing : \A k \in closing : j <= k) + 1

ScanNumber(s, i) ==
    IF At(s, i) \notin Digits THEN 0
    ELSE CHOOSE j \in (i + 1)..(Len(s) + 1) :
            /\ \A k \in i..(j - 1) : s[k] \in Digits
            /\ At(s, j) \notin Digits

NoObject == [end |-> 0, obj |-> <<>>]

\* for (const key in tmp) target[key] = tmp[key]
Merge(target, tmp) ==
    [key \in DOMAIN target \cup DOMAIN tmp |->
        IF key \in DOMAIN tmp THEN tmp[key] ELSE target[key]]

RECURSIVE ScanValue(_, _), ScanMembers(_, _, _)
ScanObject(s, i) ==
    IF At(s, i) # "{" THEN NoObject
    ELSE IF At(s, i + 1) = "}" THEN [end |-> i + 2, obj |-> <<>>]
    ELSE ScanMembers(s, i + 1, <<>>)

ScanValue(s, i) ==
    IF At(s, i) = Q THEN ScanString(s, i)
    ELSE IF At(s, i) = "{" THEN ScanObject(s, i).end
    ELSE ScanNumber(s, i)

ScanMembers(s, i, obj) ==
    LET k == ScanString(s, i)
        v == ScanValue(s, k + 1)
        member == [key \in {SubSeq(s, i + 1, k - 2)} |-> SubSeq(s, k + 1, v - 1)]
    IN  IF k = 0 \/ At(s, k) # ":" \/ v = 0 THEN NoObject
        ELSE IF At(s, v) = "," THEN ScanMembers(s, v + 1, Merge(obj, member))
        ELSE IF At(s, v) = "}" THEN [end |-> v + 1, obj |-> Merge(obj, member)]
        ELSE NoObject

JSONparse(s) ==
    LET r == ScanObject(s, 1)
    IN  IF r.end = Len(s) + 1 THEN [ok |-> TRUE, obj |-> r.obj]
        ELSE [ok |-> FALSE, obj |-> <<>>]

\* the loop of eventControlData from character i of str: every character is
\* appended to the fragment, and a "}" parses the fragment and clears it; a
\* SyntaxError of JSON.parse leaves the loop with the fragment as it is
RECURSIVE controlLoop(_, _, _, _, _)
controlLoop(fragment, inf, str, i, parses) ==
    IF i > Len(str)
    THEN [infoFragment |-> fragment, info |-> inf, threw |-> FALSE, parses |-> parses]
    ELSE LET appended == Append(fragment, str[i])
             tmp == JSONparse(appended)
         IN  IF str[i] # "}" THEN controlLoop(appended, inf, str, i + 1, parses)
             ELSE IF ~tmp.ok
             THEN [infoFragment |-> appended, info |-> inf, threw |-> TRUE, parses |-> parses]
             ELSE controlLoop(<<>>, Merge(inf, tmp.obj), str, i + 1, parses + 1)

\* MuseBase.eventControlData(event): the keys parsed during this notification
eventControlData(fragment, bytes) == controlLoop(fragment, <<>>, decodeInfo(bytes), 1, 0)

\* Muse.controlData(event): lib merges what eventControlData returned, and
\* nothing when it threw; the context class merges inside the loop
controlData(v, fragment, inf, bytes) ==
    IF v = "lib"
    THEN LET r == eventControlData(fragment, bytes)
         IN  [r EXCEPT !.info = IF r.threw THEN inf ELSE Merge(inf, r.info)]
    ELSE controlLoop(fragment, inf, decodeInfo(bytes), 1, 0)

\* what a packet holds after the bytes the length byte counts
Padding == <<125>>

ControlInit ==
    /\ infoFragment = <<>>
    /\ info = <<>>
    /\ wire = <<>>
    /\ ctl = [op |-> "new", sent |-> <<>>, text |-> 0, clean |-> TRUE, before |-> <<>>,
              closed |-> 0, parses |-> 0, threw |-> FALSE, thrown |-> 0]

\* the device starts to send one text
SendText ==
    \E t \in DOMAIN Texts :
        /\ wire = <<>>
        /\ Len(ctl.sent) < MaxTexts
        /\ wire' = Encode(Texts[t])
        /\ ctl' = [ctl EXCEPT !.op = "send", !.text = t, !.clean = (infoFragment = <<>>),
                              !.before = info, !.sent = Append(@, t), !.parses = 0,
                              !.closed = ctl.closed + ctl.parses + ctl.thrown,
                              !.threw = FALSE, !.thrown = 0]
        /\ UNCHANGED <<bufVars, sessionVars, recVars, codecVars, providerVars, museVars, infoFragment, info>>

\* one notification of the control characteristic: a length byte, the next
\* n bytes of the text, and the rest of the packet
ControlNotification ==
    \E n \in 1..Len(wire) :
        LET value == <<n>> \o SubSeq(wire, 1, n) \o Padding
            r == controlData(variant, infoFragment, info, value)
        IN  /\ infoFragment' = r.infoFragment
            /\ info' = r.info
            /\ wire' = SubSeq(wire, n + 1, Len(wire))
            /\ ctl' = [ctl EXCEPT !.op = "controlData", !.parses = @ + r.parses,
                                  !.threw = r.threw,
                                  !.thrown = @ + (IF r.threw THEN 1 ELSE 0)]
            /\ UNCHANGED <<bufVars, sessionVars, recVars, codecVars, providerVars, museVars>>

ControlNext == SendText \/ ControlNotification

(* ======================= sampling pipeline and recording ======================= *)

WINDOW_SIZE == 3 * SAMPLE_RATE

\* a channel element: a number, or one of the values sanitizeAndInterpolate
\* treats as invalid (NaN, null)
Num(x) == [kind |-> "number", v |-> x]
NaN == [kind |-> "NaN", v |-> 0]
JsNull == [kind |-> "null", v |-> 0]

\* val !== null && !isNaN(val) && typeof val === "number"
isValid(val) == val.kind = "number"

\* data.map(...) of sanitizeAndInterpolate from element i, with lastValidValue
RECURSIVE interpolate(_, _, _)
interpolate(data, i, lastValidValue) ==
    IF i > Len(data) THEN <<>>
    ELSE IF isValid(data[i]) THEN <<data[i]>> \o interpolate(data, i + 1, data[i])
    ELSE <<lastValidValue>> \o interpolate(data, i + 1, lastValidValue)

sanitizeZeroFill(data) ==
    [i \in 1..Len(data) |-> IF isValid(data[i]) THEN data[i] ELSE Num(0)]

sanitizeLeadingZero(data) == interpolate(data, 1, Num(0))

\* sanitizeAndInterpolate(data)
sanitizeAndInterpolate(data) ==
    LET validData == SelectSeq(data, isValid)
    IN  IF Len(validData) = 0 THEN [i \in 1..Len(data) |-> Num(0)]
        ELSE interpolate(data, 1, validData[1])

\* the tuples a result is computed from: processRecordedData keeps
\* dataBuffer.slice(-WINDOW_SIZE); the spectral computation is left abstract
NoResult == [null |-> TRUE, windowData |-> <<>>, sanitizedData |-> <<>>, rawEEG |-> <<>>]

\* a value of a captured tuple as a channel element: buffer.read() gave null
\* for an empty buffer
Element(v) == IF v = Null THEN JsNull ELSE Num(v)

\* the try block of processRecordedData: the tuples are transposed into one
\* series per channel, each series is sanitized, and rawEEG is the last value
\* of each sanitized series
analyse(windowData) ==
    LET channelData ==
            [c \in 1..CHANNELS |-> [i \in 1..Len(windowData) |-> Element(windowData[i][c])]]
        sanitizedData == [c \in 1..CHANNELS |-> sanitizeAndInterpolate(channelData[c])]
    IN  [null |-> FALSE, windowData |-> windowData, sanitizedData |-> sanitizedData,
         rawEEG |-> [c \in 1..CHANNELS |-> sanitizedData[c][Len(sanitizedData[c])]]]

processKeepsAll(dataBuffer) ==
    IF Len(dataBuffer) < WINDOW_SIZE THEN NoResult
    ELSE analyse(dataBuffer)

processWindowFirst(dataBuffer, window) ==
    IF Len(dataBuffer) < window THEN NoResult
    ELSE analyse(SubSeq(dataBuffer, 1, window))

\* processRecordedData for a window of `window` tuples
processWindow(dataBuffer, window) ==
    IF Len(dataBuffer) < window THEN NoResult
    ELSE analyse(SubSeq(dataBuffer, Len(dataBuffer) - window + 1, Len(dataBuffer)))

processRecordedData(dataBuffer) == processWindow(dataBuffer, WINDOW_SIZE)

\* eegData(n, event), ppgData(n, event): every sample of the packet is written
\* to buffer n
RECURSIVE writeSamples(_, _, _)
writeSamples(b, samples, t) ==
    IF samples = <<>> THEN b ELSE writeSamples(write(b, Head(samples), t), Tail(samples), t)

\* EEG values are kept in units of 1 / EegUnit: 0.48828125 is 125 / 256
EegUnit == 256

\* 0.48828125 * (x - 0x800)
eegScale(x) == 125 * (x - 2048)

eegDataUnscaled(buffers, n, samples, t) ==
    [buffers EXCEPT ![n] = writeSamples(@, samples, t)]

\* Muse.eegData(n, event), samples being eventEEGData(event)
eegData(buffers, n, samples, t) ==
    [buffers EXCEPT
        ![n] = writeSamples(@, [i \in 1..Len(samples) |-> eegScale(samples[i])], t)]

ppgDataAllBuffers(buffers, n, samples, t) ==
    [m \in DOMAIN buffers |-> writeSamples(buffers[m], samples, t)]

\* Muse.ppgData(n, event), samples being eventPPGData(event)
ppgData(buffers, n, samples, t) == [buffers EXCEPT ![n] = writeSamples(@, samples, t)]

\* muse.eeg.slice(0, CHANNELS).map((buffer) => buffer.read())
tick(buffers) ==
    [eeg |-> [n \in DOMAIN buffers |-> IF n < CHANNELS THEN read(buffers[n]).buf ELSE buffers[n]],
     eegData |-> [c \in 1..CHANNELS |-> read(buffers[c - 1]).ret]]

\* if (isRecording) recordingBuffer.push(eegData)
captureData(recording, buffer, eegTuple) ==
    IF recording /\ \E c \in DOMAIN eegTuple : eegTuple[c] # Null
    THEN Append(buffer, eegTuple) ELSE buffer

capture(recording, buffer, eegTuple) ==
    IF recording THEN Append(buffer, eegTuple) ELSE buffer

\* startRecording()
startKeepsBuffer(buffer, t) ==
    [recordingBuffer |-> buffer, isRecording |-> TRUE, recordingStartTime |-> t]

startRecording(buffer, t) ==
    [recordingBuffer |-> <<>>, isRecording |-> TRUE, recordingStartTime |-> t]

\* Date.dateNow() - recordingStartTime, in milliseconds (null counts as 0)
elapsed(start, t) == t - (IF start = Null THEN 0 ELSE start)

\* the padding rule of stopRecording: recordingBuffer.concat(Array(...).fill(last))
padNever(buffer) == buffer

padWindowInclusive(buffer, window) ==
    IF Len(buffer) < window /\ 2 * Len(buffer) >= window /\ buffer # <<>>
    THEN buffer \o [i \in 1..(window - Len(buffer)) |-> buffer[Len(buffer)]]
    ELSE buffer

\* the padding rule for a window of `window` tuples
padWindow(buffer, window) ==
    IF Len(buffer) < window /\ 2 * Len(buffer) > window
    THEN buffer \o [i \in 1..(window - Len(buffer)) |-> buffer[Len(buffer)]]
    ELSE buffer

pad(buffer) == padWindow(buffer, WINDOW_SIZE)

\* stopRecording()
stopIgnoresDuration(buffer, start, t) ==
    [recordingBuffer |-> pad(buffer), isRecording |-> FALSE,
     ret |-> IF Len(pad(buffer)) < WINDOW_SIZE THEN NoResult ELSE processRecordedData(pad(buffer))]

\* stopRecording() for a window of `window` tuples
stopRecordingWindow(buffer, start, t, window) ==
    LET padded == padWindow(buffer, window)
    IN  [recordingBuffer |-> padded, isRecording |-> FALSE,
         ret |-> IF elapsed(start, t) < 3 * 1000 \/ Len(padded) < window
                 THEN NoResult ELSE processWindow(padded, window)]

\* stopRecording() for the window of the pipeline
stopRecording(buffer, start, t) ==
    LET padded == pad(buffer)
    IN  [recordingBuffer |-> padded, isRecording |-> FALSE,
         ret |-> IF elapsed(start, t) < 3 * 1000 \/ Len(padded) < WINDOW_SIZE
                 THEN NoResult ELSE processRecordedData(padded)]

RecordingInit ==
    /\ eeg = [n \in 0..4 |-> MuseCircularBuffer(Size)]
    /\ ppg = [n \in 0..2 |-> MuseCircularBuffer(Size)]
    /\ dateNow = Epoch
    /\ subscription = FALSE
    /\ rawEEG = <<>>
    /\ recordingBuffer = <<>>
    /\ isRecording = FALSE
    /\ recordingStartTime = Null
    /\ rec = [op |-> "new", ret |-> NoResult, before |-> <<>>, wasRecording |-> FALSE,
              samples |-> 0, captured |-> 0, results |-> 0]

\* setupPipeline(muse, setRawEEG)
SetupPipeline ==
    /\ ~subscription
    /\ subscription' = TRUE
    /\ rec' = [rec EXCEPT !.op = "setupPipeline", !.before = <<>>, !.ret = NoResult]
    /\ UNCHANGED <<bufVars, sessionVars, ctlVars, codecVars, providerVars, museVars, eeg, ppg, dateNow, rawEEG, recordingBuffer,
                   isRecording, recordingStartTime>>

\* clearInterval(subscription): the timer leaves the list of active timers at
\* once, and the event loop runs no callback of a timer that is not in it
clearLater(active) == active

clearInterval(active) == FALSE

\* the function setupPipeline returned is called
StopPipeline ==
    /\ subscription
    /\ subscription' = clearInterval(subscription)
    /\ rec' = [rec EXCEPT !.op = "stopPipeline", !.before = <<>>, !.ret = NoResult]
    /\ UNCHANGED <<bufVars, sessionVars, ctlVars, codecVars, providerVars, museVars, eeg, ppg, dateNow, rawEEG, recordingBuffer,
                   isRecording, recordingStartTime>>

\* the characteristics that notify: the first and the last EEG channel the
\* pipeline samples, the EEG channel it does not sample, and one PPG channel
EegNotifying == {0, CHANNELS - 1, CHANNELS}
PpgNotifying == {0}

\* an EEG notification of channel n; the k-th sample of a behaviour has the
\* raw value k
EegData ==
    \E n \in EegNotifying :
        /\ rec.samples < MaxSamples
        /\ eeg' = eegData(eeg, n, <<rec.samples + 1>>, dateNow)
        /\ rec' = [rec EXCEPT !.op = "eegData", !.samples = @ + 1, !.before = <<>>,
                              !.ret = NoResult]
        /\ UNCHANGED <<bufVars, sessionVars, ctlVars, codecVars, providerVars, museVars, ppg, dateNow, subscription, rawEEG,
                       recordingBuffer, isRecording, recordingStartTime>>

\* a PPG notification of channel n
PpgData ==
    \E n \in PpgNotifying :
        /\ rec.samples < MaxSamples
        /\ ppg' = ppgData(ppg, n, <<rec.samples + 1>>, dateNow)
        /\ rec' = [rec EXCEPT !.op = "ppgData", !.samples = @ + 1, !.before = <<>>,
                              !.ret = NoResult]
        /\ UNCHANGED <<bufVars, sessionVars, ctlVars, codecVars, providerVars, museVars, eeg, dateNow, subscription, rawEEG,
                       recordingBuffer, isRecording, recordingStartTime>>

\* the interval callback of setupPipeline
PipelineTick ==
    LET r == tick(eeg)
    IN  /\ subscription
        /\ isRecording => Len(recordingBuffer) < WINDOW_SIZE + MaxExtra
        /\ eeg' = r.eeg
        /\ rawEEG' = r.eegData
        /\ recordingBuffer' = capture(isRecording, recordingBuffer, r.eegData)
        /\ rec' = [rec EXCEPT !.op = "tick", !.before = <<>>, !.ret = NoResult,
                              !.wasRecording = isRecording,
                              !.captured = @ + (IF isRecording THEN 1 ELSE 0)]
        /\ UNCHANGED <<bufVars, sessionVars, ctlVars, codecVars, providerVars, museVars, ppg, dateNow, subscription, isRecording,
                       recordingStartTime>>

StartRecording ==
    LET r == startRecording(recordingBuffer, dateNow)
    IN  /\ recordingBuffer' = r.recordingBuffer
        /\ isRecording' = r.isRecording
        /\ recordingStartTime' = r.recordingStartTime
        /\ rec' = [rec EXCEPT !.op = "startRecording", !.before = recordingBuffer,
                              !.ret = NoResult, !.wasRecording = isRecording,
                              !.captured = 0, !.results = 0]
        /\ UNCHANGED <<bufVars, sessionVars, ctlVars, codecVars, providerVars, museVars, eeg, ppg, dateNow, subscription, rawEEG>>

StopRecording ==
    LET r == stopRecording(recordingBuffer, recordingStartTime, dateNow)
    IN  /\ rec.results < MaxResults
        /\ recordingBuffer' = r.recordingBuffer
        /\ isRecording' = r.isRecording
        /\ rec' = [rec EXCEPT !.op = "stopRecording", !.ret = r.ret,
                              !.before = recordingBuffer, !.wasRecording = isRecording,
                              !.results = @ + (IF r.ret.null THEN 0 ELSE 1)]
        /\ UNCHANGED <<bufVars, sessionVars, ctlVars, codecVars, providerVars, museVars, eeg, ppg, dateNow, subscription, rawEEG,
                       recordingStartTime>>

\* wall-clock time passes
Elapse ==
    /\ dateNow < Epoch + MaxElapse * ElapseStep
    /\ dateNow' = dateNow + ElapseStep
    /\ rec' = [rec EXCEPT !.op = "elapse", !.before = <<>>, !.ret = NoResult]
    /\ UNCHANGED <<bufVars, sessionVars, ctlVars, codecVars, providerVars, museVars, eeg, ppg, subscription, rawEEG,
                   recordingBuffer, isRecording, recordingStartTime>>

RecordingNext ==
    SetupPipeline \/ StopPipeline \/ EegData \/ PpgData \/ PipelineTick \/ StartRecording
        \/ StopRecording \/ Elapse

(* ======================= pure functions of the analysis and the codec ======================= *)

Elements == {Num(5), Num(7), NaN, JsNull}

ChannelsData == UNION {[1..n -> Elements] : n \in 0..MaxChannelLen}

CodecInit == applied = [fn |-> "none", arg |-> <<>>, ret |-> <<>>]

\* a pure function is applied once in a behaviour
Idle == applied.fn = "none"

Sanitize ==
    \E data \in ChannelsData :
        /\ Idle
        /\ applied' = [fn |-> "sanitizeAndInterpolate", arg |-> data,
                    ret |-> sanitizeAndInterpolate(data)]
        /\ UNCHANGED <<bufVars, sessionVars, ctlVars, recVars, museVars, providerVars>>

\* the frequency bands, in Hz; a bound is the fraction num / den
Hz(num, den) == [num |-> num, den |-> den]

bandsOverlapping ==
    [delta |-> <<Hz(1, 2), Hz(4, 1)>>,
     theta |-> <<Hz(4, 1), Hz(8, 1)>>,
     alpha |-> <<Hz(8, 1), Hz(14, 1)>>,
     beta |-> <<Hz(13, 1), Hz(30, 1)>>,
     gamma |-> <<Hz(30, 1), Hz(100, 1)>>]

bands ==
    [delta |-> <<Hz(1, 2), Hz(4, 1)>>,
     theta |-> <<Hz(4, 1), Hz(8, 1)>>,
     alpha |-> <<Hz(8, 1), Hz(13, 1)>>,
     beta |-> <<Hz(13, 1), Hz(30, 1)>>,
     gamma |-> <<Hz(30, 1), Hz(100, 1)>>]

\* Math.floor and Math.ceil of f / freqResolution, with
\* freqResolution = SAMPLE_RATE / WINDOW_SIZE
floorBin(f) == (f.num * WINDOW_SIZE) \div (f.den * SAMPLE_RATE)

ceilBin(f) == (f.num * WINDOW_SIZE + f.den * SAMPLE_RATE - 1) \div (f.den * SAMPLE_RATE)

Max2(a, b) == IF a >= b THEN a ELSE b

Min2(a, b) == IF a <= b THEN a ELSE b

\* array.slice(begin, end) for 0 <= begin, on a sequence indexed from 1
slice(array, begin, end) ==
    LET stop == IF end < 0 THEN Max2(Len(array) + end, 0) ELSE Min2(end, Len(array))
    IN  IF begin >= stop THEN <<>> ELSE SubSeq(array, begin + 1, stop)

\* array.reduce((a, b) => a + b, 0); the sum is taken by halves
RECURSIVE reduceSum(_)
reduceSum(array) ==
    IF array = <<>> THEN 0
    ELSE IF Len(array) = 1 THEN array[1]
    ELSE reduceSum(SubSeq(array, 1, Len(array) \div 2))
            + reduceSum(SubSeq(array, Len(array) \div 2 + 1, Len(array)))

bandPowerInclusive(powerSpectrumData, band) ==
    reduceSum(slice(powerSpectrumData,
                    Max2(1, floorBin(bands[band][1])),
                    Min2(Len(powerSpectrumData) - 1, ceilBin(bands[band][2])) + 1))

\* the body of the loop of powerByBand for one band
bandPower(powerSpectrumData, band) ==
    LET lowIndex == Max2(1, floorBin(bands[band][1]))
        highIndex == Min2(Len(powerSpectrumData) - 1, ceilBin(bands[band][2]))
    IN  reduceSum(slice(powerSpectrumData, lowIndex, highIndex))

\* powerByBand(powerSpectrumData)
powerByBand(powerSpectrumData) ==
    [band \in DOMAIN bands |-> bandPower(powerSpectrumData, band)]

\* the spectra given to powerByBand: all the power in one bin
Spectra ==
    {[i \in 1..n |-> IF i = hot + 1 THEN 1 ELSE 0] :
        n \in {SpectrumBins, SpectrumBins \div 12}, hot \in 0..(SpectrumBins - 1)}

PowerByBand ==
    \E powerSpectrumData \in Spectra :
        /\ Idle
        /\ applied' = [fn |-> "powerByBand", arg |-> powerSpectrumData,
                       ret |-> powerByBand(powerSpectrumData)]
        /\ UNCHANGED <<bufVars, sessionVars, ctlVars, recVars, museVars, providerVars>>

\* Numbers of the periodogram are kept exactly: Surd(r, s) is (r + s * sqrt(3)) / 2,
\* which holds every cosine and sine of a multiple of a twelfth of a turn.
Surd(r, s) == [r |-> r, s |-> s]

\* Math.cos of q twelfths of a turn
cosTwelfths(q) ==
    CASE q % 12 = 0 -> Surd(2, 0)
      [] q % 12 \in {1, 11} -> Surd(0, 1)
      [] q % 12 \in {2, 10} -> Surd(1, 0)
      [] q % 12 \in {3, 9} -> Surd(0, 0)
      [] q % 12 \in {4, 8} -> Surd(-1, 0)
      [] q % 12 \in {5, 7} -> Surd(0, -1)
      [] q % 12 = 6 -> Surd(-2, 0)

\* Math.sin of q twelfths of a turn
sinTwelfths(q) == cosTwelfths(q + 9)

\* (2 * Math.PI * t * k) / n, in twelfths of a turn (n divides 12)
angle(t, k, n) == (t * k) * (12 \div n)

\* the inner loop of calculatePowerSpectrum from index t
RECURSIVE accumulate(_, _, _, _, _)
accumulate(data, k, t, real, imag) ==
    IF t >= Len(data) THEN [real |-> real, imag |-> imag]
    ELSE LET a == angle(t, k, Len(data))
             c == cosTwelfths(a)
             d == sinTwelfths(a)
         IN  accumulate(data, k, t + 1,
                        Surd(real.r + data[t + 1] * c.r, real.s + data[t + 1] * c.s),
                        Surd(imag.r - data[t + 1] * d.r, imag.s - data[t + 1] * d.s))

\* x * x of a Surd, as rat + irr * sqrt(3) over 4
square(x) == [rat |-> x.r * x.r + 3 * x.s * x.s, irr |-> 2 * x.r * x.s]

\* a bin of the spectrum: (rat + irr * sqrt(3)) / den
Bin(rat, irr, den) == [rat |-> rat, irr |-> irr, den |-> den]

spectrumUnnormalised(data) ==
    [k1 \in 1..(Len(data) \div 2) |->
        LET acc == accumulate(data, k1 - 1, 0, Surd(0, 0), Surd(0, 0))
        IN  Bin(square(acc.real).rat + square(acc.imag).rat,
                square(acc.real).irr + square(acc.imag).irr, 4)]

\* calculatePowerSpectrum(data), for data of even length
calculatePowerSpectrum(data) ==
    [k1 \in 1..(Len(data) \div 2) |->
        LET acc == accumulate(data, k1 - 1, 0, Surd(0, 0), Surd(0, 0))
        IN  Bin(square(acc.real).rat + square(acc.imag).rat,
                square(acc.real).irr + square(acc.imag).irr, 4 * Len(data))]

\* the sanitized channels given to calculatePowerSpectrum: the length is even
\* (WINDOW_SIZE is 3 * 256) and divides 12
SpectrumSamples == {-3, 0, 1, 2}

SpectrumLengths == {n \in {2, 4, 6, 12} : n <= 2 * MaxBins}

SanitizedChannels == UNION {[1..n -> SpectrumSamples] : n \in SpectrumLengths}

CalculatePowerSpectrum ==
    \E data \in SanitizedChannels :
        /\ Idle
        /\ applied' = [fn |-> "calculatePowerSpectrum", arg |-> data,
                       ret |-> calculatePowerSpectrum(data)]
        /\ UNCHANGED <<bufVars, sessionVars, ctlVars, recVars, museVars, providerVars>>

\* a recording of len tuples, the i-th tuple holding the value i on every channel
Recorded(len) == [i \in 1..len |-> [c \in 1..CHANNELS |-> i]]

\* stopRecording() on a recording of every length up to one tuple more than the
\* window, just before and at 3 seconds after the start, for the windows of
\* the sample rates 1..MaxRate
StopRecordingAt ==
    \E rate \in 1..MaxRate, ms \in {2999, 3000} : \E len \in 0..(3 * rate + 1) :
        /\ Idle
        /\ applied' = [fn |-> "stopRecording",
                       arg |-> [buffer |-> Recorded(len), elapsed |-> ms, window |-> 3 * rate],
                       ret |-> stopRecordingWindow(Recorded(len), Epoch, Epoch + ms, 3 * rate)]
        /\ UNCHANGED <<bufVars, sessionVars, ctlVars, recVars, museVars, providerVars>>

\* new TextEncoder().encode(str)
TextEncoder(str) == Encode(str)

\* a store into a Uint8Array keeps the low 8 bits
Uint8(x) == x % 256

encodeCommandCountsAll(cmd) ==
    [TextEncoder(<<"X">> \o cmd \o <<"\n">>) EXCEPT ![1] = Uint8(Len(cmd) + 2)]

\* #encodeCommand(cmd)
encodeCommand(cmd) ==
    LET encoded == TextEncoder(<<"X">> \o cmd \o <<"\n">>)
    IN  [encoded EXCEPT ![1] = Uint8(Len(encoded) - 1)]

\* the characters of the commands connect() sends
Characters(cmd) ==
    CASE cmd = "h" -> <<"h">>
      [] cmd = "p50" -> <<"p", "5", "0">>
      [] cmd = "s" -> <<"s">>
      [] cmd = "d" -> <<"d">>
      [] cmd = "v1" -> <<"v", "1">>

\* the commands given to encodeCommand: those of connect(), a command with a
\* character of two bytes, and commands of every length up to MaxCmdLen
Commands ==
    {Characters(StartupCommands[i]) : i \in DOMAIN StartupCommands}
        \cup {<<"e_acute">>}
        \cup {[i \in 1..n |-> "s"] : n \in 0..MaxCmdLen}

EncodeCommand ==
    \E cmd \in Commands :
        /\ Idle
        /\ applied' = [fn |-> "encodeCommand", arg |-> cmd, ret |-> encodeCommand(cmd)]
        /\ UNCHANGED <<bufVars, sessionVars, ctlVars, recVars, museVars, providerVars>>

\* ---- bit operations of JavaScript on the values the decoders meet ----
RECURSIVE BitAnd(_, _), BitOr(_, _)
\* a & b and a | b, for a, b >= 0
BitAnd(a, b) ==
    IF a = 0 \/ b = 0 THEN 0
    ELSE (a % 2) * (b % 2) + 2 * BitAnd(a \div 2, b \div 2)

BitOr(a, b) ==
    IF a = 0 THEN b
    ELSE IF b = 0 THEN a
    ELSE (IF a % 2 = 1 \/ b % 2 = 1 THEN 1 ELSE 0) + 2 * BitOr(a \div 2, b \div 2)

RECURSIVE Pow2(_)
Pow2(k) == IF k = 0 THEN 1 ELSE 2 * Pow2(k - 1)

\* a << k and a >> k, for a >= 0; a byte shifted by at most 16 stays below
\* 2^31, so the 32-bit result of << is the product
ShiftLeft(a, k) == a * Pow2(k)

ShiftRight(a, k) == a \div Pow2(k)

\* samples[i] of a typed array indexed from 0; an index past the end reads
\* undefined, which counts as 0 in a bit operation
ByteAt(samples, i) == IF i < Len(samples) THEN samples[i + 1] ELSE 0

\* the loop of #decodeUnsigned12BitData from index i
RECURSIVE decode12NoMask(_, _)
decode12NoMask(samples, i) ==
    IF i >= Len(samples) THEN <<>>
    ELSE IF i % 3 = 0
    THEN <<BitOr(ShiftLeft(ByteAt(samples, i), 4), ShiftRight(ByteAt(samples, i + 1), 4))>>
            \o decode12NoMask(samples, i + 1)
    ELSE <<BitOr(ShiftLeft(ByteAt(samples, i), 8), ByteAt(samples, i + 1))>>
            \o decode12NoMask(samples, i + 2)

RECURSIVE decode12(_, _)
decode12(samples, i) ==
    IF i >= Len(samples) THEN <<>>
    ELSE IF i % 3 = 0
    THEN <<BitOr(ShiftLeft(ByteAt(samples, i), 4), ShiftRight(ByteAt(samples, i + 1), 4))>>
            \o decode12(samples, i + 1)
    ELSE <<BitOr(ShiftLeft(BitAnd(ByteAt(samples, i), 15), 8), ByteAt(samples, i + 1))>>
            \o decode12(samples, i + 2)

\* #decodeUnsigned12BitData(samples)
decodeUnsigned12BitData(samples) == decode12(samples, 0)

\* the loop of #decodeUnsigned24BitData from index i
RECURSIVE decode24LowByteFirst(_, _)
decode24LowByteFirst(samples, i) ==
    IF i >= Len(samples) THEN <<>>
    ELSE <<BitOr(BitOr(ShiftLeft(ByteAt(samples, i + 2), 16),
                       ShiftLeft(ByteAt(samples, i + 1), 8)),
                 ByteAt(samples, i))>>
            \o decode24LowByteFirst(samples, i + 3)

RECURSIVE decode24(_, _)
decode24(samples, i) ==
    IF i >= Len(samples) THEN <<>>
    ELSE <<BitOr(BitOr(ShiftLeft(ByteAt(samples, i), 16), ShiftLeft(ByteAt(samples, i + 1), 8)),
                 ByteAt(samples, i + 2))>>
            \o decode24(samples, i + 3)

\* #decodeUnsigned24BitData(samples)
decodeUnsigned24BitData(samples) == decode24(samples, 0)

\* groups of three payload bytes, and the payloads of up to MaxTriples groups
Triples == {<<0, 0, 0>>, <<255, 255, 255>>, <<171, 205, 239>>, <<18, 52, 86>>}

RECURSIVE Payloads(_)
Payloads(k) ==
    IF k = 0 THEN {<<>>}
    ELSE {p \o t : p \in Payloads(k - 1), t \in Triples}

PayloadBytes == UNION {Payloads(k) : k \in 0..MaxTriples}

Decode12 ==
    \E samples \in PayloadBytes :
        /\ Idle
        /\ applied' = [fn |-> "decodeUnsigned12BitData", arg |-> samples,
                       ret |-> decodeUnsigned12BitData(samples)]
        /\ UNCHANGED <<bufVars, sessionVars, ctlVars, recVars, museVars, providerVars>>

Decode24 ==
    \E samples \in PayloadBytes :
        /\ Idle
        /\ applied' = [fn |-> "decodeUnsigned24BitData", arg |-> samples,
                       ret |-> decodeUnsigned24BitData(samples)]
        /\ UNCHANGED <<bufVars, sessionVars, ctlVars, recVars, museVars, providerVars>>

CodecNext ==
    Sanitize \/ CalculatePowerSpectrum \/ PowerByBand \/ StopRecordingAt \/ EncodeCommand
        \/ Decode12 \/ Decode24

(* ======================= notifications of the Muse class ======================= *)

\* dv.getUint16(ofs) and dv.getInt16(ofs): big-endian, on a sequence indexed from 1
getUint16(dv, ofs) == dv[ofs + 1] * 256 + dv[ofs + 2]

getInt16(dv, ofs) ==
    IF getUint16(dv, ofs) >= 32768 THEN getUint16(dv, ofs) - 65536 ELSE getUint16(dv, ofs)

\* the battery level is kept in units of 1 / BatteryUnit
BatteryUnit == 512

\* eventBatteryData(event): data.getUint16(2) / 512
eventBatteryData(value) == getUint16(value, 2)

\* motion values are kept in units of 1 / MotionUnit: the accelerometer scale
\* 0.0000610352 is 38147 / 625000000, the gyroscope scale 0.0074768 is
\* 4673000 / 625000000
MotionUnit == 625000000

AccelerometerScale == 38147

GyroscopeScale == 4673000

\* motionData(dv, scale, ofs)
motionData(dv, scale, ofs) ==
    <<scale * getInt16(dv, ofs), scale * getInt16(dv, ofs + 2), scale * getInt16(dv, ofs + 4)>>

\* the loop for (ofs = 2; ofs <= 14; ofs += 6): one array of samples per axis
motionSamples(value, scale) ==
    [axis \in 1..3 |-> [i \in 1..3 |-> motionData(value, scale, 2 + 6 * (i - 1))[axis]]]

\* eventAccelerometerData(event) and eventGyroscopeData(event)
eventAccelerometerData(value) == motionSamples(value, AccelerometerScale)

eventGyroscopeData(value) == motionSamples(value, GyroscopeScale)

\* eventEEGData(event) and eventPPGData(event): the payload starts at byte 2
eventEEGData(value) == decodeUnsigned12BitData(subarray(value, 2, Len(value)))

eventPPGData(value) == decodeUnsigned24BitData(subarray(value, 2, Len(value)))

\* the loop of accelerometerData and gyroscopeData: sample i of every axis is
\* written to the buffer of the axis
writeAxes(buffers, vals, t) ==
    [axis \in DOMAIN buffers |-> writeSamples(buffers[axis], vals[axis + 1], t)]

\* Muse.accelerometerData(event)
accelerometerData(buffers, value, t) == writeAxes(buffers, eventAccelerometerData(value), t)

\* Muse.gyroscopeData(event): the library class reads the values with
\* eventAccelerometerData, the context class scales with the gyroscope factor
gyroscopeData(v, buffers, value, t) ==
    writeAxes(buffers,
              IF v = "lib" THEN eventAccelerometerData(value) ELSE eventGyroscopeData(value),
              t)

\* the hook connect() installs on each characteristic
hook(c) ==
    CASE c = "control" -> [handler |-> "controlData", n |-> 0]
      [] c = "battery" -> [handler |-> "batteryData", n |-> 0]
      [] c = "gyroscope" -> [handler |-> "gyroscopeData", n |-> 0]
      [] c = "accelerometer" -> [handler |-> "accelerometerData", n |-> 0]
      [] c = "ppg1" -> [handler |-> "ppgData", n |-> 0]
      [] c = "ppg2" -> [handler |-> "ppgData", n |-> 1]
      [] c = "ppg3" -> [handler |-> "ppgData", n |-> 2]
      [] c = "eeg1" -> [handler |-> "eegData", n |-> 0]
      [] c = "eeg2" -> [handler |-> "eegData", n |-> 1]
      [] c = "eeg3" -> [handler |-> "eegData", n |-> 2]
      [] c = "eeg4" -> [handler |-> "eegData", n |-> 3]
      [] c = "eeg5" -> [handler |-> "eegData", n |-> 4]

HookedBy(handler) ==
    {Characteristics[k] : k \in {j \in DOMAIN Characteristics :
                                    hook(Characteristics[j]).handler = handler}}

\* the two bytes every data packet starts with (a sequence number)
PacketHeader == <<0, 1>>

\* the packets of the EEG and PPG characteristics
SamplePackets ==
    {PacketHeader \o <<171, 205, 239, 18, 52, 86>>, PacketHeader \o <<255, 255, 255>>,
     PacketHeader \o <<0, 0, 0, 128, 0, 1>>}

\* the packets of the motion characteristics: nine 16-bit values
MotionPackets ==
    {PacketHeader \o <<0, 1, 0, 2, 0, 3, 0, 4, 0, 5, 0, 6, 0, 7, 0, 8, 0, 9>>,
     PacketHeader \o <<255, 255, 255, 0, 0, 255, 0, 0, 255, 254, 0, 128, 255, 128, 0, 1, 1, 0>>}

\* the packets of the battery characteristic
BatteryPackets == {PacketHeader \o <<200, 0>>, PacketHeader \o <<1, 2>>}

MuseInit ==
    /\ accelerometer = [n \in 0..2 |-> MuseCircularBuffer(Size)]
    /\ gyroscope = [n \in 0..2 |-> MuseCircularBuffer(Size)]
    /\ batteryLevel = Null
    /\ ntf = [op |-> "new", c |-> "none", value |-> <<>>, count |-> 0]

Notified(c, value) ==
    [op |-> hook(c).handler, c |-> c, value |-> value, count |-> ntf.count + 1]

EegNotification ==
    \E c \in HookedBy("eegData"), value \in SamplePackets :
        /\ ntf.count < MaxNotifications
        /\ eeg' = eegData(eeg, hook(c).n, eventEEGData(value), dateNow)
        /\ ntf' = Notified(c, value)
        /\ UNCHANGED <<bufVars, sessionVars, ctlVars, codecVars, providerVars, ppg, dateNow, subscription,
                       rawEEG, recordingBuffer, isRecording, recordingStartTime, rec,
                       accelerometer, gyroscope, batteryLevel>>

PpgNotification ==
    \E c \in HookedBy("ppgData"), value \in SamplePackets :
        /\ ntf.count < MaxNotifications
        /\ ppg' = ppgData(ppg, hook(c).n, eventPPGData(value), dateNow)
        /\ ntf' = Notified(c, value)
        /\ UNCHANGED <<bufVars, sessionVars, ctlVars, codecVars, providerVars, eeg, dateNow, subscription,
                       rawEEG, recordingBuffer, isRecording, recordingStartTime, rec,
                       accelerometer, gyroscope, batteryLevel>>

AccelerometerNotification ==
    \E c \in HookedBy("accelerometerData"), value \in MotionPackets :
        /\ ntf.count < MaxNotifications
        /\ accelerometer' = accelerometerData(accelerometer, value, dateNow)
        /\ ntf' = Notified(c, value)
        /\ UNCHANGED <<bufVars, sessionVars, ctlVars, codecVars, providerVars, recVars, gyroscope,
                       batteryLevel>>

GyroscopeNotification ==
    \E c \in HookedBy("gyroscopeData"), value \in MotionPackets :
        /\ ntf.count < MaxNotifications
        /\ gyroscope' = gyroscopeData(variant, gyroscope, value, dateNow)
        /\ ntf' = Notified(c, value)
        /\ UNCHANGED <<bufVars, sessionVars, ctlVars, codecVars, providerVars, recVars, accelerometer,
                       batteryLevel>>

BatteryNotification ==
    \E c \in HookedBy("batteryData"), value \in BatteryPackets :
        /\ ntf.count < MaxNotifications
        /\ batteryLevel' = eventBatteryData(value)
        /\ ntf' = Notified(c, value)
        /\ UNCHANGED <<bufVars, sessionVars, ctlVars, codecVars, providerVars, recVars, accelerometer,
                       gyroscope>>

\* a control notification that carries one whole text
ControlPacket ==
    \E c \in HookedBy("controlData"), t \in DOMAIN Texts :
        LET value == <<Len(Encode(Texts[t]))>> \o Encode(Texts[t]) \o Padding
            r == controlData(variant, infoFragment, info, value)
        IN  /\ ntf.count < MaxNotifications
            /\ infoFragment' = r.infoFragment
            /\ info' = r.info
            /\ ntf' = Notified(c, value)
            /\ UNCHANGED <<bufVars, sessionVars, codecVars, providerVars, recVars, wire, ctl, accelerometer,
                           gyroscope, batteryLevel>>

NotifyNext ==
    EegNotification \/ PpgNotification \/ AccelerometerNotification
        \/ GyroscopeNotification \/ BatteryNotification \/ ControlPacket

(* ======================= the EEGProvider ======================= *)

ProviderInit ==
    provider = [muse |-> FALSE, isConnected |-> FALSE, isMockData |-> FALSE, pc |-> "idle"]

\* connectMuseDevice() is called: connectMuse() creates the Muse and calls
\* connect() on it, which enters Connecting and requests a device. The provider
\* connects once in a behaviour.
ConnectMuseDevice ==
    /\ provider.pc = "idle"
    /\ calls[1].pc = "idle"
    /\ ~connectGuard(dev, state)
    /\ state' = 1
    /\ calls' = [calls EXCEPT ![1].pc = "requestDevice", ![1].selections = 1]
    /\ last' = Handler("connect", 1, <<"requestDevice">>)
    /\ provider' = [provider EXCEPT !.pc = "awaiting"]
    /\ UNCHANGED <<bufVars, ctlVars, recVars, codecVars, museVars, variant, dev, controlChar,
                   listeners>>

\* the connect() call of connectMuseDevice() has finished and the code after
\* `await connectMuse()` has not run yet; it runs before anything else does
Settling == provider.pc = "awaiting" /\ calls[1].pc \in {"returned", "connected", "thrown"}

\* connectMuseDevice() after the await: setMuse, setIsConnected(true),
\* setIsMockData(false) when the promise of connectMuse() resolved, the catch
\* block when it rejected
ConnectMuseSettled ==
    /\ Settling
    /\ provider' = IF calls[1].pc = "thrown"
                   THEN [provider EXCEPT !.pc = "done"]
                   ELSE [muse |-> TRUE, isConnected |-> TRUE, isMockData |-> FALSE,
                         pc |-> "done"]
    /\ UNCHANGED <<bufVars, sessionVars, ctlVars, recVars, codecVars, museVars>>

\* connectMockData()
ConnectMockData ==
    /\ ~Settling
    /\ ~(provider.isConnected /\ provider.isMockData)
    /\ provider' = [provider EXCEPT !.isConnected = TRUE, !.isMockData = TRUE]
    /\ UNCHANGED <<bufVars, sessionVars, ctlVars, recVars, codecVars, museVars>>

\* disconnectEEG(): muse.disconnect() if a Muse is held, then setMuse(null),
\* setIsConnected(false), setIsMockData(false)
DisconnectEEG ==
    LET r == IF provider.muse THEN disconnect(dev, state)
             ELSE [dev |-> dev, state |-> state, teardown |-> FALSE]
    IN  /\ ~Settling
        /\ provider.muse \/ provider.isConnected
        /\ dev' = r.dev
        /\ state' = r.state
        /\ last' = [Handler("disconnectEEG", 0,
                            IF r.teardown THEN <<"gatt.disconnect">> ELSE <<>>)
                      EXCEPT !.teardown = r.teardown]
        /\ provider' = [provider EXCEPT !.muse = FALSE, !.isConnected = FALSE,
                                        !.isMockData = FALSE]
        /\ UNCHANGED <<bufVars, ctlVars, recVars, codecVars, museVars, variant, controlChar,
                       calls, listeners>>

\* a step of the transport: an awaited request of connect() settles, or the
\* device disconnects
TransportStep ==
    /\ ~Settling
    /\ \/ GattServerDisconnected
       \/ \E i \in 1..MaxCalls :
             \/ RequestDeviceRejected(i)
             \/ RequestDeviceResolved(i)
             \/ GattConnectRejected(i)
             \/ GattConnectResolved(i)
             \/ GetPrimaryServiceRejected(i)
             \/ GetPrimaryServiceResolved(i)
             \/ GetCharacteristicRejected(i)
             \/ GetCharacteristicResolved(i)
             \/ WriteValueRejected(i)
             \/ WriteValueResolved(i)

ProviderNext ==
    ConnectMuseDevice \/ ConnectMuseSettled \/ ConnectMockData \/ DisconnectEEG
        \/ TransportStep

\* connectMuse(): `await muse.connect(); return muse` on a fresh Muse, whose
\* first connect() invocation is call c: the promise rejects when connect()
\* throws and resolves with the Muse object whenever connect() returns
connectMuse(c) ==
    IF c.pc = "thrown" THEN "rejected"
    ELSE IF c.pc \in {"returned", "connected"} THEN "resolved"
    ELSE "pending"

\* C11: whenever the state is Disconnected the session holds neither a device
\* handle nor a control-characteristic handle.
C11_NoHandlesWhenDisconnected ==
    state = 0 => (dev = NoHandle /\ controlChar = NoHandle)

\* C12: whenever the promise of connectMuse() resolves, the Muse it returns is
\* in state Connected; a failed connection rejects the promise.
C12_ConnectMuseResolvesConnected ==
    [][(connectMuse(calls[1]) = "pending" /\ connectMuse(calls'[1]) = "resolved") =>
          state' = 2]_vars

\* the texts of Texts that are well-formed flat JSON objects, those of them
\* with no "}" and no multi-byte character inside a string, and the malformed
FlatObjects == {1, 2, 3, 4}
PlainObjects == {1, 2}
Malformed == {5, 6}

\* the object each well-formed text denotes
Expected(t) ==
    CASE t = 1 -> [key \in {<<"a">>} |-> <<"1">>]
      [] t = 2 -> [key \in {<<"a">>, <<"b">>} |-> IF key = <<"a">> THEN <<"2">> ELSE <<"1">>]
      [] t = 3 -> [key \in {<<"b">>} |-> <<Q, "}", Q>>]
      [] t = 4 -> [key \in {<<"b">>} |-> <<Q, "e_acute", Q>>]

\* C13: a well-formed flat JSON object that starts on an empty fragment buffer,
\* however it is split over notifications, is not parsed before its last
\* byte is delivered, and once it is: it was parsed exactly once, the info map
\* is the map before it overridden by the object's keys, and the fragment
\* buffer is empty.
C13_FlatObjectParsedOnce ==
    (ctl.op = "controlData" /\ ctl.text \in FlatObjects /\ ctl.clean) =>
        /\ wire # <<>> => ctl.parses = 0
        /\ wire = <<>> =>
              /\ ctl.parses = 1
              /\ info = Merge(ctl.before, Expected(ctl.text))
              /\ infoFragment = <<>>

\* C14: when only plain and malformed texts are sent, the control handler
\* never throws, and a plain object delivered after a "}" has followed the
\* malformed text is parsed once and merged into the info map.
C14_MalformedResynchronizes ==
    (ctl.op = "controlData" /\ \A i \in DOMAIN ctl.sent : ctl.sent[i] \in PlainObjects \cup Malformed) =>
        /\ ~ctl.threw
        /\ (wire = <<>> /\ ctl.text \in PlainObjects /\ ctl.closed >= 1) =>
              /\ ctl.parses = 1
              /\ info = Merge(ctl.before, Expected(ctl.text))

\* C15: a pipeline tick reads once from each of the first CHANNELS EEG buffers
\* and from no other buffer, passes the tuple of the values read (Null for an
\* empty buffer) to the live consumer, and appends that tuple to the recording
\* buffer exactly when recording is active.
C15_TickReadsAndCaptures ==
    [][rec'.op = "tick" =>
          /\ \A n \in DOMAIN eeg :
                eeg'[n] = IF n < CHANNELS THEN read(eeg[n]).buf ELSE eeg[n]
          /\ ppg' = ppg
          /\ rawEEG' = [c \in 1..CHANNELS |-> read(eeg[c - 1]).ret]
          /\ recordingBuffer' = IF isRecording THEN Append(recordingBuffer, rawEEG')
                                 ELSE recordingBuffer]_vars

C15_Witness ==
    /\ rec.op = "tick" /\ rec.wasRecording
    /\ \E c \in DOMAIN rawEEG : rawEEG[c] # Null
    /\ \E c \in DOMAIN rawEEG : rawEEG[c] = Null
    /\ recordingBuffer # <<>> /\ recordingBuffer[Len(recordingBuffer)] = rawEEG

\* C16: after startRecording() the recording buffer is empty, recording is
\* active and the start time is the current time; while recording the buffer
\* holds one tuple per tick since that call, so none captured before it.
C16_StartResets ==
    /\ rec.op = "startRecording" =>
          recordingBuffer = <<>> /\ isRecording /\ recordingStartTime = dateNow
    /\ isRecording => Len(recordingBuffer) = rec.captured

C16_Witness ==
    /\ rec.op = "startRecording" /\ rec.wasRecording /\ rec.before # <<>>
    /\ recordingBuffer = <<>>

\* C17: stopRecording() leaves recording inactive, and returns no result when
\* less than 3 seconds have passed since the start or the buffer after padding
\* is shorter than WINDOW_SIZE; a result implies both conditions.
C17_StopNeedsDurationAndLength ==
    rec.op = "stopRecording" =>
        /\ ~isRecording
        /\ (elapsed(recordingStartTime, dateNow) < 3 * 1000
                \/ Len(recordingBuffer) < WINDOW_SIZE) => rec.ret.null
        /\ ~rec.ret.null =>
              /\ elapsed(recordingStartTime, dateNow) >= 3 * 1000
              /\ Len(recordingBuffer) >= WINDOW_SIZE

C17_Witness ==
    /\ rec.op = "stopRecording" /\ rec.ret.null
    /\ Len(recordingBuffer) >= WINDOW_SIZE
    /\ elapsed(recordingStartTime, dateNow) < 3 * 1000

\* C18: a buffer of more than WINDOW_SIZE / 2 and fewer than WINDOW_SIZE tuples
\* is extended by stopRecording() to WINDOW_SIZE tuples with copies of its last
\* tuple, and after 3 seconds of recording the result is computed from it.
C18_Padding ==
    (rec.op = "stopRecording" /\ 2 * Len(rec.before) > WINDOW_SIZE
        /\ Len(rec.before) < WINDOW_SIZE) =>
        /\ Len(recordingBuffer) = WINDOW_SIZE
        /\ SubSeq(recordingBuffer, 1, Len(rec.before)) = rec.before
        /\ \A i \in (Len(rec.before) + 1)..WINDOW_SIZE :
              recordingBuffer[i] = rec.before[Len(rec.before)]
        /\ elapsed(recordingStartTime, dateNow) >= 3 * 1000 =>
              ~rec.ret.null /\ rec.ret.windowData = recordingBuffer

C18_Witness ==
    /\ rec.op = "stopRecording" /\ ~rec.ret.null
    /\ 2 * Len(rec.before) > WINDOW_SIZE /\ Len(rec.before) < WINDOW_SIZE
    /\ \E c \in 1..CHANNELS : rec.before[Len(rec.before)][c] # Null

\* C19 as stated: the recording buffer never holds more than WINDOW_SIZE tuples.
C19_WindowBounded == Len(recordingBuffer) <= WINDOW_SIZE

\* C19 amended: the recording buffer grows by one tuple with every tick while
\* recording, beyond WINDOW_SIZE; what a result is computed from is exactly
\* the last WINDOW_SIZE tuples of the buffer.
C19_ResultWindowBounded ==
    [][/\ (rec'.op = "tick" /\ isRecording) =>
              Len(recordingBuffer') = Len(recordingBuffer) + 1
       /\ (rec'.op = "stopRecording" /\ ~rec'.ret.null) =>
              /\ Len(rec'.ret.windowData) = WINDOW_SIZE
              /\ \A i \in 1..WINDOW_SIZE :
                    rec'.ret.windowData[i] =
                        recordingBuffer'[Len(recordingBuffer') - WINDOW_SIZE + i]]_vars

C19_Witness ==
    /\ rec.op = "stopRecording" /\ ~rec.ret.null
    /\ Len(recordingBuffer) > WINDOW_SIZE

\* C20: one recording yields at most one result: a stopRecording() that returns
\* a result leaves no recording buffer behind, and stopRecording() before any
\* startRecording() returns no result.
C20_OneResultPerRecording ==
    /\ rec.results <= 1
    /\ (rec.op = "stopRecording" /\ ~rec.ret.null) => recordingBuffer = <<>>
    /\ (rec.op = "stopRecording" /\ recordingStartTime = Null) => rec.ret.null

\* C21: calling the function setupPipeline returned stops the pipeline at once:
\* from its return until a pipeline is set up again no step is a tick, the
\* live consumer gets no tuple, no EEG buffer loses a sample, and only
\* startRecording and stopRecording change the recording buffer.
C21_StopPipelineImmediate ==
    [][/\ rec'.op = "stopPipeline" => ~subscription'
       /\ ~subscription =>
             /\ rec'.op # "tick"
             /\ rawEEG' = rawEEG
             /\ \A n \in DOMAIN eeg : eeg'[n].length >= eeg[n].length
             /\ rec'.op \notin {"startRecording", "stopRecording"} =>
                   recordingBuffer' = recordingBuffer]_vars

C21_Witness ==
    /\ rec.op = "stopPipeline" /\ ~subscription /\ isRecording
    /\ recordingBuffer # <<>>
    /\ \E n \in 0..(CHANNELS - 1) : eeg[n].length > 0

\* the positions of the valid values of a channel
ValidAt(data) == {i \in 1..Len(data) : isValid(data[i])}

Last(S) == CHOOSE i \in S : \A j \in S : j <= i

First(S) == CHOOSE i \in S : \A j \in S : i <= j

\* C22: Sanitize maps [NaN, 5, NaN, NaN, 7] to [5, 5, 5, 5, 7] and a channel
\* with no valid value to zeros; with a valid value in the channel the output
\* has the length of the input, keeps every valid value, and replaces an
\* invalid value after the first valid one by the latest valid value before it.
C22_Sanitize ==
    applied.fn = "sanitizeAndInterpolate" =>
        LET data == applied.arg
            out == applied.ret
        IN  /\ data = <<NaN, Num(5), NaN, NaN, Num(7)>> =>
                  out = <<Num(5), Num(5), Num(5), Num(5), Num(7)>>
            /\ Len(out) = Len(data)
            /\ ValidAt(data) = {} => \A i \in 1..Len(data) : out[i] = Num(0)
            /\ \A i \in 1..Len(data) :
                  /\ isValid(data[i]) => out[i] = data[i]
                  /\ (~isValid(data[i]) /\ \E j \in ValidAt(data) : j < i) =>
                        out[i] = data[Last({j \in ValidAt(data) : j < i})]

C22_Witness ==
    /\ applied.fn = "sanitizeAndInterpolate"
    /\ applied.arg = <<NaN, Num(5), NaN, NaN, Num(7)>>
    /\ applied.ret = <<Num(5), Num(5), Num(5), Num(5), Num(7)>>

\* C23 as stated: an invalid value with no valid value before it becomes 0,
\* also when a valid value follows.
C23_LeadingInvalidIsZero ==
    applied.fn = "sanitizeAndInterpolate" =>
        \A i \in 1..Len(applied.arg) :
            (~isValid(applied.arg[i]) /\ ~\E j \in ValidAt(applied.arg) : j < i) =>
                applied.ret[i] = Num(0)

\* C23 amended: an invalid value with no valid value before it becomes the
\* first valid value of the channel, and 0 only when the channel has none.
C23_LeadingInvalidIsFirstValid ==
    applied.fn = "sanitizeAndInterpolate" =>
        \A i \in 1..Len(applied.arg) :
            (~isValid(applied.arg[i]) /\ ~\E j \in ValidAt(applied.arg) : j < i) =>
                applied.ret[i] = IF ValidAt(applied.arg) = {} THEN Num(0)
                              ELSE applied.arg[First(ValidAt(applied.arg))]

C23_Witness ==
    /\ applied.fn = "sanitizeAndInterpolate"
    /\ Len(applied.arg) >= 3 /\ ~isValid(applied.arg[1]) /\ ~isValid(applied.arg[2])
    /\ applied.arg[3] = Num(7) /\ applied.ret[1] = Num(7) /\ applied.ret[2] = Num(7)

\* the power of the bins from..to of a spectrum (bin 0 is the first element)
BinsPower(spectrum, from, to) ==
    reduceSum([i \in 1..(to - from + 1) |-> spectrum[from + i]])

\* C24: with resolution 1/3 Hz and 384 bins every band sums the bins from
\* max(1, floor(3 low)) up to but without min(383, ceil(3 high)); alpha is
\* bins 24..38, so bin 24 counts and bin 39 does not.
C24_BandBins ==
    (applied.fn = "powerByBand" /\ Len(applied.arg) = 384) =>
        /\ applied.ret.delta = BinsPower(applied.arg, 1, 11)
        /\ applied.ret.theta = BinsPower(applied.arg, 12, 23)
        /\ applied.ret.alpha = BinsPower(applied.arg, 24, 38)
        /\ applied.ret.beta = BinsPower(applied.arg, 39, 89)
        /\ applied.ret.gamma = BinsPower(applied.arg, 90, 299)

C24_Witness ==
    /\ applied.fn = "powerByBand" /\ Len(applied.arg) = 384
    /\ applied.arg[39 + 1] = 1
    /\ applied.ret.alpha = 0 /\ applied.ret.beta = 1

\* C25 as stated: for every command the frame has len(cmd) + 2 bytes, starts
\* with the byte len(cmd) + 1, continues with the bytes of cmd and ends with a
\* newline; "s" gives [2, 's', newline].
C25_FrameOfEveryCommand ==
    applied.fn = "encodeCommand" =>
        /\ Len(applied.ret) = Len(applied.arg) + 2
        /\ applied.ret[1] = Len(applied.arg) + 1
        /\ SubSeq(applied.ret, 2, Len(applied.ret) - 1) = TextEncoder(applied.arg)
        /\ applied.ret[Len(applied.ret)] = 10
        /\ applied.arg = <<"s">> => applied.ret = <<2, 115, 10>>

\* C25 amended: with n the number of bytes of the UTF-8 encoding of cmd, the
\* frame is the byte (n + 1) mod 256, the n bytes of cmd and a newline; the
\* first byte is n + 1, the frame length minus 1, when n <= 254; "s" gives
\* [2, 's', newline].
C25_FrameOfShortCommand ==
    applied.fn = "encodeCommand" =>
        LET n == Len(TextEncoder(applied.arg))
        IN  /\ Len(applied.ret) = n + 2
            /\ applied.ret[1] = (n + 1) % 256
            /\ n <= 254 => applied.ret[1] = n + 1 /\ applied.ret[1] = Len(applied.ret) - 1
            /\ SubSeq(applied.ret, 2, n + 1) = TextEncoder(applied.arg)
            /\ applied.ret[n + 2] = 10
            /\ applied.arg = <<"s">> => applied.ret = <<2, 115, 10>>

C25_Witness ==
    /\ applied.fn = "encodeCommand"
    /\ applied.arg = <<"p", "5", "0">>
    /\ applied.ret = <<4, 112, 53, 48, 10>>

\* the packing that the 12-bit unpack undoes: two values in three bytes
RECURSIVE pack12(_)
pack12(values) ==
    IF Len(values) < 2 THEN <<>>
    ELSE <<values[1] \div 16, (values[1] % 16) * 16 + values[2] \div 256, values[2] % 256>>
            \o pack12(SubSeq(values, 3, Len(values)))

\* C26: the 12-bit unpack of 3k bytes gives 2k values in 0..4095, the values
\* 2j and 2j+1 being (b[3j] << 4) | (b[3j+1] >> 4) and
\* ((b[3j+1] & 0xF) << 8) | b[3j+2]; unpacking the packing of the values
\* gives the values back.
C26_Unpack12 ==
    (applied.fn = "decodeUnsigned12BitData" /\ Len(applied.arg) % 3 = 0) =>
        LET b == applied.arg
            value == applied.ret
        IN  /\ Len(value) = 2 * (Len(b) \div 3)
            /\ \A j \in 0..(Len(b) \div 3 - 1) :
                  /\ value[2 * j + 1] = b[3 * j + 1] * 16 + b[3 * j + 2] \div 16
                  /\ value[2 * j + 2] = (b[3 * j + 2] % 16) * 256 + b[3 * j + 3]
            /\ \A i \in 1..Len(value) : value[i] \in 0..4095
            /\ pack12(value) = b
            /\ decodeUnsigned12BitData(pack12(value)) = value

C26_Witness ==
    /\ applied.fn = "decodeUnsigned12BitData"
    /\ applied.arg = <<171, 205, 239, 18, 52, 86>>
    /\ applied.ret = <<2748, 3567, 291, 1110>>

\* the samples of a notification a buffer takes: a full buffer drops a write
Room(b, samples) == SubSeq(samples, 1, Min2(Len(samples), MemoryLength(b) - b.length))

\* the value of the j-th group of three bytes, high byte first
Count24(b, j) == b[3 * j + 1] * 65536 + b[3 * j + 2] * 256 + b[3 * j + 3]

Unpack24Law ==
    \A b \in PayloadBytes :
        LET value == decodeUnsigned24BitData(b)
        IN  /\ Len(value) = Len(b) \div 3
            /\ \A j \in 0..(Len(b) \div 3 - 1) :
                  /\ value[j + 1] = Count24(b, j)
                  /\ value[j + 1] \in 0..16777215

\* C27: the 24-bit unpack of 3k bytes gives k values, value j being
\* b[3j] * 65536 + b[3j+1] * 256 + b[3j+2], in 0..2^24 - 1; a PPG notification
\* writes these values, unscaled, to the PPG buffer of its characteristic.
C27_PpgRawCounts ==
    [][ntf'.op = "ppgData" =>
          LET b == subarray(ntf'.value, 2, Len(ntf'.value))
              n == hook(ntf'.c).n
              counts == [j \in 1..(Len(b) \div 3) |-> Count24(b, j - 1)]
          IN  Len(b) % 3 = 0 =>
                  /\ Unpack24Law
                  /\ Contents(ppg'[n]) = Contents(ppg[n]) \o Room(ppg[n], counts)]_vars

C27_Witness ==
    /\ ntf.op = "ppgData"
    /\ ntf.c = "ppg2"
    /\ ntf.value = PacketHeader \o <<171, 205, 239, 18, 52, 86>>
    /\ Contents(ppg[1]) = <<11259375, 1193046>>

\* the samples a notification has appended to buffer after, which was before
Written(before, after) ==
    SubSeq(Contents(after), Len(Contents(before)) + 1, Len(Contents(after)))

EegScaleLaw ==
    /\ \A raw \in 0..4095 :
          /\ 2048 * eegScale(raw) = 1000 * EegUnit * (raw - 2048)
          /\ -1000 * EegUnit <= eegScale(raw)
          /\ eegScale(raw) < 1000 * EegUnit
          /\ raw < 4095 => eegScale(raw) < eegScale(raw + 1)
    /\ eegScale(2048) = 0

\* C28: every sample an EEG notification writes is 0.48828125 * (raw - 2048)
\* for the 12-bit raw value at its place in the payload, that is
\* 2048 * value = 1000 * (raw - 2048); over raw in 0..4095 the value lies in
\* [-1000, 1000), grows strictly with raw, and is 0 at raw 2048.
C28_EegScaling ==
    [][ntf'.op = "eegData" =>
          LET n == hook(ntf'.c).n
              raw == eventEEGData(ntf'.value)
              written == Written(eeg[n], eeg'[n])
          IN  /\ EegScaleLaw
              /\ Len(written) = Len(Room(eeg[n], raw))
              /\ \A i \in 1..Len(written) :
                    /\ raw[i] \in 0..4095
                    /\ 2048 * written[i] = 1000 * EegUnit * (raw[i] - 2048)]_vars

C28_Witness ==
    /\ ntf.op = "eegData"
    /\ ntf.c = "eeg3"
    /\ ntf.value = PacketHeader \o <<0, 0, 0, 128, 0, 1>>
    /\ ntf.count = 1
    /\ SubSeq(Contents(eeg[2]), 1, 3) = <<-256000, -256000, 0>>

\* the signed 16-bit values of one axis (0, 1 or 2) in a motion notification
AxisValues(value, axis) == [i \in 1..3 |-> getInt16(value, 2 + 6 * (i - 1) + 2 * axis)]

\* the samples of a motion notification on one axis, scaled by a factor
Scaled(value, axis, scale) == [i \in 1..3 |-> scale * AxisValues(value, axis)[i]]

\* C29: every sample written to a gyroscope buffer is the signed 16-bit value
\* of the gyroscope notification times the gyroscope factor (0.0074768), and
\* every sample written to an accelerometer buffer is the signed 16-bit value
\* times the accelerometer factor (0.0000610352).
C29_MotionScales ==
    [][/\ ntf'.op = "gyroscopeData" =>
              \A axis \in 0..2 :
                  Written(gyroscope[axis], gyroscope'[axis])
                      = Room(gyroscope[axis], Scaled(ntf'.value, axis, GyroscopeScale))
       /\ ntf'.op = "accelerometerData" =>
              \A axis \in 0..2 :
                  Written(accelerometer[axis], accelerometer'[axis])
                      = Room(accelerometer[axis],
                             Scaled(ntf'.value, axis, AccelerometerScale))]_vars

\* the place of a characteristic among those of its kind, counted from 1
EegCharacteristics == <<"eeg1", "eeg2", "eeg3", "eeg4", "eeg5">>

PpgCharacteristics == <<"ppg1", "ppg2", "ppg3">>

Among(characteristics) == {characteristics[k] : k \in DOMAIN characteristics}

Place(characteristics, c) == CHOOSE k \in DOMAIN characteristics : characteristics[k] = c

\* the buffers of a group other than those in written are as they were
OnlyWritten(before, after, written) ==
    \A m \in DOMAIN before : m \notin written => after[m] = before[m]

RECURSIVE SumOver(_, _)
SumOver(f, T) ==
    IF T = {} THEN 0
    ELSE LET t == CHOOSE u \in T : TRUE IN f[t] + SumOver(f, T \ {t})

\* C31: the periodogram of a sanitized channel x of length n has n / 2 bins,
\* bin k being (real^2 + imag^2) / n with real the sum over t of
\* x[t] * cos(2 pi t k / n) and imag minus the sum over t of
\* x[t] * sin(2 pi t k / n).
C31_Periodogram ==
    applied.fn = "calculatePowerSpectrum" =>
        LET x == applied.arg
            n == Len(x)
            spectrum == applied.ret
            T == 0..(n - 1)
            turn(t, k) == ((t * k) % n) * (12 \div n)
        IN  /\ 2 * Len(spectrum) = n
            /\ \A k \in 0..(Len(spectrum) - 1) :
                  LET realR == SumOver([t \in T |-> x[t + 1] * cosTwelfths(turn(t, k)).r], T)
                      realS == SumOver([t \in T |-> x[t + 1] * cosTwelfths(turn(t, k)).s], T)
                      imagR == -SumOver([t \in T |-> x[t + 1] * sinTwelfths(turn(t, k)).r], T)
                      imagS == -SumOver([t \in T |-> x[t + 1] * sinTwelfths(turn(t, k)).s], T)
                  IN  /\ spectrum[k + 1].den = 4 * n
                      /\ spectrum[k + 1].rat
                            = realR * realR + 3 * realS * realS
                                + imagR * imagR + 3 * imagS * imagS
                      /\ spectrum[k + 1].irr = 2 * realR * realS + 2 * imagR * imagS
            /\ spectrum[1].irr = 0
            /\ spectrum[1].rat = 4 * SumOver([t \in T |-> x[t + 1]], T)
                                     * SumOver([t \in T |-> x[t + 1]], T)

C31_Witness ==
    /\ applied.fn = "calculatePowerSpectrum"
    /\ applied.arg = <<1, 0, -3, 2>>
    /\ applied.ret = <<Bin(0, 0, 16), Bin(80, 0, 16)>>

\* the rejections of a transport step of connect() after gatt.connect() resolved
TransportFailures ==
    {"getPrimaryService.rejected", "getCharacteristic.rejected", "writeValue.rejected"}

\* C32: when primary-service resolution, a characteristic resolution or a
\* startup command write fails, the connect() call finishes with the state
\* Disconnected, no exception reaches the caller, and a later connect() can
\* start a new attempt.
C32_TransportFailureResets ==
    last.op \in TransportFailures =>
        /\ state = 0
        /\ ~last.threw
        /\ ~connectGuard(dev, state)

\* C33: under every interleaving of a connect() in flight with disconnect()
\* calls and transport disconnect events, whenever the state is Connected the
\* session holds a device handle and the control characteristic of that device.
C33_ConnectedHoldsHandles ==
    state = 2 => (dev # NoHandle /\ controlChar # NoHandle /\ controlChar = dev)

\* a connect() call that has started and has not finished
InFlight(c) ==
    c.pc \in {"requestDevice", "gattConnect", "getPrimaryService", "getCharacteristic",
              "writeValue"}

\* C34: at most one connection attempt is in flight at any time: no connect()
\* call requests a device while an earlier attempt has not finished.
C34_OneAttemptInFlight ==
    Cardinality({i \in DOMAIN calls : InFlight(calls[i])}) <= 1

\* C35: a stopRecording() that returns no result leaves the recording buffer
\* as it was, so a later stopRecording() sees the same window and a recording
\* that was active for less than 3 seconds never yields a result.
C35_FailedStopKeepsWindow ==
    (rec.op = "stopRecording" /\ rec.ret.null) => recordingBuffer = rec.before

\* a stopRecording() at least 3 seconds after the start on exactly half a window
HalfWindow ==
    /\ applied.fn = "stopRecording"
    /\ 2 * Len(applied.arg.buffer) = applied.arg.window
    /\ applied.arg.elapsed >= 3 * 1000

\* C36 as stated: a recording of at least 3 seconds that holds exactly
\* WINDOW_SIZE / 2 tuples is padded with its last tuple to WINDOW_SIZE tuples
\* and stopRecording() returns a result.
C36_HalfWindowPadded ==
    HalfWindow =>
        /\ Len(applied.ret.recordingBuffer) = applied.arg.window
        /\ ~applied.ret.ret.null

\* C36 amended: the lower bound of the padding rule is exclusive. A recording
\* of exactly WINDOW_SIZE / 2 tuples is left as it is and stopRecording()
\* returns no result; one of more than WINDOW_SIZE / 2 and fewer than
\* WINDOW_SIZE tuples is padded with its last tuple to WINDOW_SIZE tuples and,
\* after 3 seconds, gives a result.
C36_HalfWindowNotPadded ==
    applied.fn = "stopRecording" =>
        LET buffer == applied.arg.buffer
            window == applied.arg.window
            after == applied.ret.recordingBuffer
        IN  /\ HalfWindow => (after = buffer /\ applied.ret.ret.null)
            /\ (2 * Len(buffer) > window /\ Len(buffer) < window) =>
                  /\ Len(after) = window
                  /\ \A i \in 1..window :
                        after[i] = buffer[IF i <= Len(buffer) THEN i ELSE Len(buffer)]
                  /\ applied.arg.elapsed >= 3 * 1000 => ~applied.ret.ret.null
            /\ 2 * Len(buffer) < window => (after = buffer /\ applied.ret.ret.null)

C36_Witness ==
    /\ HalfWindow
    /\ Len(applied.arg.buffer) = 3
    /\ applied.ret.recordingBuffer = Recorded(3)
    /\ applied.ret.ret.null

\* the value of channel c in the last tuple of a window that has one, else 0
LastValid(window, c) ==
    LET valid == {i \in DOMAIN window : window[i][c] # Null}
    IN  IF valid = {} THEN Num(0)
        ELSE Num(window[CHOOSE i \in valid : \A j \in valid : j <= i][c])

IndexRange(band) ==
    <<Max2(1, floorBin(bands[band][1])), Min2(384 - 1, ceilBin(bands[band][2]))>>

\* C38: for a window of 3 seconds the band index ranges are delta [1, 12),
\* theta [12, 24), alpha [24, 39), beta [39, 90), gamma [90, 300); they are
\* disjoint and contiguous, so every bin 1..299 contributes to exactly one
\* band power and bin 0 and bins 300..383 to none.
C38_BandsPartition ==
    (applied.fn = "powerByBand" /\ Len(applied.arg) = 384) =>
        LET hot == CHOOSE h \in 0..383 : applied.arg[h + 1] # 0
            hit == {band \in DOMAIN bands : applied.ret[band] # 0}
        IN  /\ IndexRange("delta") = <<1, 12>>
            /\ IndexRange("theta") = <<12, 24>>
            /\ IndexRange("alpha") = <<24, 39>>
            /\ IndexRange("beta") = <<39, 90>>
            /\ IndexRange("gamma") = <<90, 300>>
            /\ hot \in 1..299 =>
                  /\ Cardinality(hit) = 1
                  /\ \A band \in hit :
                        /\ applied.ret[band] = applied.arg[hot + 1]
                        /\ IndexRange(band)[1] <= hot /\ hot < IndexRange(band)[2]
            /\ hot \notin 1..299 => hit = {}

C38_Witness ==
    /\ applied.fn = "powerByBand" /\ Len(applied.arg) = 384
    /\ applied.arg[299 + 1] = 1
    /\ applied.ret.gamma = 1
    /\ \A band \in DOMAIN bands \ {"gamma"} : applied.ret[band] = 0

\* the steps that end a session: disconnect() and the transport's event
DisconnectOps == {"disconnect", "gattserverdisconnected"}

\* C39: disconnect() and the transport disconnect event leave the sample
\* buffers, the battery level, the info map and the control fragment
\* accumulator as they were, and no step of a later connect() changes the
\* accumulator: unread samples stay readable and a partial fragment is still
\* there when the session reconnects.
C39_DisconnectKeepsData ==
    [][/\ last'.op \in DisconnectOps => MuseData' = MuseData
       /\ last'.op \notin DisconnectOps => infoFragment' = infoFragment]_vars

C39_Witness ==
    /\ state = 2
    /\ calls[2].pc = "connected"
    /\ infoFragment = <<"{", Q, "a", Q>>
    /\ info # <<>>
    /\ \A n \in 0..4 : eeg[n].length > 0
    /\ batteryLevel # Null

\* C40: whenever the provider's isConnected is true and isMockData is false,
\* the Muse it holds is in state Connected: isConnected is not set after a
\* failed or declined connection attempt and does not stay true once the
\* session is Disconnected.
C40_IsConnectedMeansConnected ==
    (provider.isConnected /\ ~provider.isMockData) => (provider.muse /\ state = 2)

Init == BufInit /\ SessionInit /\ ControlInit /\ RecordingInit /\ CodecInit /\ MuseInit
            /\ ProviderInit

BufferNext == Write \/ Read \/ Tick

BufferSpec == Init /\ [][BufferNext]_vars

SessionSpec == Init /\ [][SessionNext]_vars

ControlSpec == Init /\ [][ControlNext]_vars

\* the recording service is used with the Muse class of the library
LibInit == Init /\ variant = "lib"

RecordingSpec == LibInit /\ [][RecordingNext]_vars

CodecSpec == LibInit /\ [][CodecNext]_vars

NotifySpec == Init /\ [][NotifyNext]_vars

\* a control packet that carries the bytes of a text or of a part of one
Packet(bytes) == <<Len(bytes)>> \o bytes \o Padding

\* a connect() call that has run to its end
ConnectedCall ==
    [pc |-> "connected", k |-> Len(StartupCommands), gatt |-> "muse", listening |-> TRUE,
     hooks |-> {Characteristics[k] : k \in DOMAIN Characteristics},
     written |-> StartupCommands, completed |-> Len(StartupCommands), selections |-> 1]

\* what the Muse object holds after these notifications: one on every data
\* characteristic, the text {"a":1} and the first four bytes of {"a":2,"b":1}
Streamed(v) ==
    LET fresh == [n \in 0..2 |-> MuseCircularBuffer(Size)]
        sample == PacketHeader \o <<171, 205, 239>>
        motion == PacketHeader \o <<0, 1, 0, 2, 0, 3, 0, 4, 0, 5, 0, 6, 0, 7, 0, 8, 0, 9>>
        first == controlData(v, <<>>, <<>>, Packet(Encode(Texts[1])))
        second == CHOOSE r \in {controlData(v, f.infoFragment, f.info,
                                             Packet(SubSeq(Encode(Texts[2]), 1, 4))) :
                                     f \in {first}} : TRUE
    IN  [eeg |-> [n \in 0..4 |->
                    eegData([m \in 0..4 |-> MuseCircularBuffer(Size)], n,
                            eventEEGData(sample), Epoch)[n]],
         ppg |-> [n \in 0..2 |-> ppgData(fresh, n, eventPPGData(sample), Epoch)[n]],
         accelerometer |-> accelerometerData(fresh, motion, Epoch),
         gyroscope |-> gyroscopeData(v, fresh, motion, Epoch),
         batteryLevel |-> eventBatteryData(PacketHeader \o <<200, 0>>),
         info |-> second.info,
         infoFragment |-> second.infoFragment]

\* a session that has connected and has received the notifications of Streamed
StreamingInit ==
    /\ BufInit /\ CodecInit /\ ProviderInit
    /\ variant \in Variants
    /\ state = 2
    /\ dev = "muse"
    /\ controlChar = "muse"
    /\ calls = [i \in 1..MaxCalls |-> IF i = 1 THEN ConnectedCall ELSE NewCall]
    /\ listeners = {"muse"}
    /\ last = [op |-> "writeValue.resolved", call |-> 1, requests |-> <<>>, again |-> TRUE,
               hook |-> FALSE, teardown |-> FALSE, threw |-> FALSE]
    /\ \E s \in {Streamed(variant)} :
          /\ eeg = s.eeg
          /\ ppg = s.ppg
          /\ accelerometer = s.accelerometer
          /\ gyroscope = s.gyroscope
          /\ batteryLevel = s.batteryLevel
          /\ info = s.info
          /\ infoFragment = s.infoFragment
    /\ wire = <<>>
    /\ ctl = [op |-> "new", sent |-> <<>>, text |-> 0, clean |-> TRUE, before |-> <<>>,
              closed |-> 0, parses |-> 0, threw |-> FALSE, thrown |-> 0]
    /\ dateNow = Epoch
    /\ subscription = FALSE
    /\ rawEEG = <<>>
    /\ recordingBuffer = <<>>
    /\ isRecording = FALSE
    /\ recordingStartTime = Null
    /\ rec = [op |-> "new", ret |-> NoResult, before |-> <<>>, wasRecording |-> FALSE,
              samples |-> 0, captured |-> 0, results |-> 0]
    /\ ntf = [op |-> "controlData", c |-> "control",
              value |-> Packet(SubSeq(Encode(Texts[2]), 1, 4)), count |-> MaxNotifications]

LinkSpec == StreamingInit /\ [][SessionNext]_vars

ProviderSpec == Init /\ [][ProviderNext]_vars

====
